---- MODULE Spec2Model ----
(***************************************************************************)
(* Model of the toss-the-remote request handlers and page:                 *)
(*   - extractMovieInfo / cleanMovieTitle (title parser and cleaner),      *)
(*   - POST /description and POST /modal (metadata search, rank, detail),  *)
(*   - POST /recommend (completion call and server-side exclusion filter), *)
(*   - GET /trending,                                                      *)
(*   - the page component (submit, get more, detail fetches, modal,        *)
(*     posters).                                                           *)
(* Strings are sequences of one-character strings, so that the regular     *)
(* expressions of the source are modelled by what they match.              *)
(***************************************************************************)
EXTENDS Integers, Sequences, FiniteSets, TLC

(***************************************************************************)
(* Bounds of the model.                                                    *)
(***************************************************************************)
\* longest free-form input of the parser, in tokens
MaxTokens == 4
\* longest <title> of a formatted input "<title> (<year>) - <director>", in tokens
MaxTitleTokens == 3

(***************************************************************************)
(* Characters and JavaScript string primitives.                            *)
(***************************************************************************)
UpperLetters == <<"A","B","C","D","E","F","G","H","I","J","K","L","M",
                  "N","O","P","Q","R","S","T","U","V","W","X","Y","Z">>

LowerLetters == <<"a","b","c","d","e","f","g","h","i","j","k","l","m",
                  "n","o","p","q","r","s","t","u","v","w","x","y","z">>

LetterIdx == 1..Len(UpperLetters)

\* \s : the whitespace characters the model's alphabet has
IsWhitespace(c) == c \in {" ", "\t", "\n"}

\* \d
IsDigit(c) == c \in {"0","1","2","3","4","5","6","7","8","9"}

\* \w : [A-Za-z0-9_]
IsWordChar(c) ==
    \/ \E i \in LetterIdx : c = UpperLetters[i] \/ c = LowerLetters[i]
    \/ IsDigit(c)
    \/ c = "_"

\* String.prototype.toLowerCase, one character
ToLowerChar(c) ==
    IF \E i \in LetterIdx : UpperLetters[i] = c
    THEN LowerLetters[CHOOSE i \in LetterIdx : UpperLetters[i] = c]
    ELSE c

toLowerCase(s) == [i \in 1..Len(s) |-> ToLowerChar(s[i])]

\* index of the first non-whitespace character at or after i (Len(s)+1 if none):
\* what a greedy \s* or \s+ consumes
RECURSIVE SkipWhitespace(_, _)
SkipWhitespace(s, i) ==
    IF i > Len(s) \/ ~IsWhitespace(s[i]) THEN i ELSE SkipWhitespace(s, i + 1)

\* .replace(/\s+/g, ' ')
RECURSIVE CollapseFrom(_, _)
CollapseFrom(s, i) ==
    IF i > Len(s) THEN <<>>
    ELSE IF IsWhitespace(s[i]) THEN <<" ">> \o CollapseFrom(s, SkipWhitespace(s, i))
    ELSE <<s[i]>> \o CollapseFrom(s, i + 1)

\* the replacement without the "+": every whitespace character becomes a space
ReplaceEachWhitespace(s) == [i \in 1..Len(s) |-> IF IsWhitespace(s[i]) THEN " " ELSE s[i]]

ReplaceWhitespaceRuns(s) == CollapseFrom(s, 1)

\* .replace(/[""]/g, '"') : both characters of the class are the ASCII double
\* quote in the source, so every double quote is replaced by itself
ReplaceQuotes(s) == [i \in 1..Len(s) |-> IF s[i] = "\"" THEN "\"" ELSE s[i]]

RECURSIVE TrimEnd(_)
TrimEnd(s) ==
    IF s = <<>> \/ ~IsWhitespace(s[Len(s)]) THEN s ELSE TrimEnd(SubSeq(s, 1, Len(s) - 1))

\* String.prototype.trim
trim(s) == TrimEnd(SubSeq(s, SkipWhitespace(s, 1), Len(s)))

\* index of the first occurrence of character c at or after i (Len(s)+1 if none)
RECURSIVE IndexOfFrom(_, _, _)
IndexOfFrom(s, c, i) ==
    IF i > Len(s) \/ s[i] = c THEN i ELSE IndexOfFrom(s, c, i + 1)

\* the part before the last occurrence of c instead of the first
SplitBeforeLast(s, c) ==
    LET at == {i \in 1..Len(s) : s[i] = c}
    IN  IF at = {} THEN s ELSE SubSeq(s, 1, (CHOOSE a \in at : \A b \in at : a >= b) - 1)

\* s.split(c)[0]
SplitFirst(s, c) == SubSeq(s, 1, IndexOfFrom(s, c, 1) - 1)

(***************************************************************************)
(* extractMovieInfo                                                        *)
(***************************************************************************)
\* the tail \s*\((\d{4})\) of the year pattern, tried at index k
YearTailAt(s, k) ==
    LET p == SkipWhitespace(s, k)
    IN  /\ p + 5 <= Len(s)
        /\ s[p] = "("
        /\ \A d \in 1..4 : IsDigit(s[p + d])
        /\ s[p + 5] = ")"

\* (.+?) : a non-empty run without a line terminator
DotRun(s, i, j) == i <= j /\ \A k \in i..j : s[k] # "\n"

\* normalizedString.match(/(.+?)\s*\((\d{4})\)/i): the leftmost start, then the
\* shortest first group
YearMatch(s) ==
    LET starts == {i \in 1..Len(s) :
                      \E j \in i..Len(s) : DotRun(s, i, j) /\ YearTailAt(s, j + 1)}
    IN  IF starts = {} THEN [found |-> FALSE, g1 |-> <<>>, g2 |-> <<>>]
        ELSE LET i == CHOOSE a \in starts : \A b \in starts : a <= b
                 ends == {j \in i..Len(s) : DotRun(s, i, j) /\ YearTailAt(s, j + 1)}
                 j == CHOOSE a \in ends : \A b \in ends : a <= b
                 p == SkipWhitespace(s, j + 1)
             IN  [found |-> TRUE, g1 |-> SubSeq(s, i, j), g2 |-> SubSeq(s, p + 1, p + 4)]

extractMovieInfo(movieString) ==
    LET normalizedString == trim(ReplaceQuotes(ReplaceWhitespaceRuns(movieString)))
        match == YearMatch(normalizedString)
    IN  IF match.found
        THEN [title |-> trim(match.g1), year |-> match.g2]
        ELSE [title |-> trim(SplitFirst(normalizedString, "-")), year |-> <<>>]

(***************************************************************************)
(* cleanMovieTitle                                                         *)
(***************************************************************************)
Articles == << <<"t","h","e">>, <<"a">>, <<"a","n">> >>

\* /^(the|a|an)\s+/i matches with alternative a
ArticleMatches(s, a) ==
    /\ Len(s) > Len(a)
    /\ toLowerCase(SubSeq(s, 1, Len(a))) = a
    /\ IsWhitespace(s[Len(a) + 1])

\* the replacement without the "i" flag: only a lower-case article is removed
StripArticleCaseSensitive(s) ==
    LET hits == {k \in 1..Len(Articles) :
                    /\ Len(s) > Len(Articles[k])
                    /\ SubSeq(s, 1, Len(Articles[k])) = Articles[k]
                    /\ IsWhitespace(s[Len(Articles[k]) + 1])}
    IN  IF hits = {} THEN s
        ELSE LET k == CHOOSE a \in hits : \A b \in hits : a <= b
             IN  SubSeq(s, SkipWhitespace(s, Len(Articles[k]) + 1), Len(s))

\* .replace(/^(the|a|an)\s+/i, '') : the alternatives are tried in order
StripArticle(s) ==
    LET hits == {k \in 1..Len(Articles) : ArticleMatches(s, Articles[k])}
    IN  IF hits = {} THEN s
        ELSE LET k == CHOOSE a \in hits : \A b \in hits : a <= b
             IN  SubSeq(s, SkipWhitespace(s, Len(Articles[k]) + 1), Len(s))

\* the characters /[^\w\s'-]/ leaves alone
IsKeptChar(c) == IsWordChar(c) \/ IsWhitespace(c) \/ c = "'" \/ c = "-"

\* .replace(/[^\w\s'-]/g, ' ')
BlankSpecials(s) == [i \in 1..Len(s) |-> IF IsKeptChar(s[i]) THEN s[i] ELSE " "]

cleanMovieTitle(title) == trim(ReplaceWhitespaceRuns(BlankSpecials(StripArticle(title))))

(***************************************************************************)
(* Inputs of the parser and the cleaner.                                   *)
(***************************************************************************)
RECURSIVE Cat(_)
Cat(ss) == IF ss = <<>> THEN <<>> ELSE Head(ss) \o Cat(Tail(ss))

Tokens == { <<"T","h","e">>, <<"a","n">>, <<"A">>, <<"x">>, <<" ">>, <<"\t">>,
            <<"(","1","9","9","9",")">>, <<"(">>, <<"-">>, <<":">>, <<"'">> }

TokenStrings(n) == { Cat(ts) : ts \in UNION { [1..k -> Tokens] : k \in 0..n } }

Years == { <<"1","9","9","9">>, <<"2","0","0","1">> }

Directors == { <<"D","x">> }

\* "<title> (<year>) - <director>"
Formatted(t, y, d) == Cat(<< t, <<" ","(">>, y, <<")"," ","-"," ">>, d >>)

FormattedStrings ==
    { Formatted(t, y, d) : t \in TokenStrings(MaxTitleTokens) \ {<<>>}, y \in Years, d \in Directors }

ParserInputs == TokenStrings(MaxTokens) \cup FormattedStrings

NoInfo == [title |-> <<"?">>, year |-> <<"?">>]

(***************************************************************************)
(* Workload of the request handlers.                                       *)
(***************************************************************************)
\* most candidates in one search response
MaxResults == 2
\* most lines in the completion's text
MaxLines == 2
\* most entries of excludeMovies
MaxExclude == 1

VARIABLES
    movieString,   \* the argument of extractMovieInfo / cleanMovieTitle
    ppc,           \* "input", "extracted" or "cleaned"
    info,          \* what extractMovieInfo returned
    cleaned,       \* what cleanMovieTitle returned
    env,           \* process.env and the server's time zone
    route,         \* the handler serving the request
    pc,            \* where the handler is: "idle", the call it awaits, "done"
    body,          \* the request's JSON body
    title,         \* const { title, year } = extractMovieInfo(movieName)
    year,
    searchLog,     \* the search calls issued, in order: [query, year]
    searchReplies, \* what each search call returned, in order
    results,       \* searchResponse.data.results once a search has succeeded
    movieData,     \* the candidate selected for the detail call
    detailLog,     \* the detail calls issued: [id, append]
    completionLog, \* the chat-completion calls issued
    completion,    \* what the chat-completion call returned
    detail,        \* what the detail call returned
    trendingLog,   \* the trending fetches issued
    trending,      \* what the trending fetch returned
    response       \* the NextResponse.json the handler returned

pvars == <<movieString, ppc, info, cleaned>>

svars == <<env, route, pc, body, title, year, searchLog, searchReplies, results,
           movieData, detailLog, completionLog, completion, detail, trendingLog,
           trending, response>>

\* the state of the page component (useState), the requests it has in flight
\* and the poster loaders it has running
VARIABLES
    movies,               \* the text of the input box
    recommendations,      \* the text last returned, or null
    isLoading,
    isLoadingMore,
    error,
    descriptions,         \* line -> MovieDescription
    loadingDescriptions,  \* line -> boolean
    showingDetails,       \* line -> boolean
    modalMovie,           \* the line the modal is open for, or null
    modalData,            \* line -> ModalMovieData
    loadingModal,         \* line -> boolean
    mobilePosters,        \* line -> poster URL
    loadingMobilePosters, \* line -> boolean
    mobileRatings,        \* line -> rating
    previousMovies,       \* the exclusion list kept between requests
    inFlight,             \* the requests awaiting their response, with their closures
    loaders,              \* the running loadAllMobilePosters calls
    issued,               \* the number of requests the user's clicks have started
    shown,                \* the lines returned by successful requests since the last submit
    latest,               \* the /recommend request started last, and what its response stored
    lastStep              \* the handler step taken last, with what it saw and sent

cvars == <<movies, recommendations, isLoading, isLoadingMore, error, descriptions,
           loadingDescriptions, showingDetails, modalData, loadingModal, mobilePosters,
           loadingMobilePosters, mobileRatings, previousMovies, inFlight, loaders,
           issued, shown, lastStep, modalMovie, latest>>

vars == <<pvars, svars, cvars>>

(***************************************************************************)
(* Values.                                                                 *)
(***************************************************************************)
\* the fields of the detail response the handlers read
DetailFields ==
    {"genres", "credits.crew", "credits.cast", "videos", "watch/providers",
     "runtime", "vote_average", "poster_path"}

NoFields == [f \in DetailFields |-> "none"]

NoResponse == [sent |-> FALSE, status |-> 0, error |-> "", success |-> FALSE,
               id |-> 0, recommendations |-> <<>>, fields |-> NoFields]

NoCandidate == [id |-> 0, title |-> <<>>, release_date |-> <<>>,
                vote_count |-> 0, vote_average |-> 0]

NoError == [message |-> "", hasStatus |-> FALSE, status |-> 0]

\* candidates of the metadata service: TMDBSearchResult, vote_average in tenths
Candidates ==
    { [id |-> 1, title |-> <<"T","h","e"," ","U","p">>,
       release_date |-> <<"1","9","9","5","-","0","1","-","0","1">>,
       vote_count |-> 10, vote_average |-> 70],
      [id |-> 2, title |-> <<"t","h","e"," ","u","p">>,
       release_date |-> <<"1","9","9","4","-","0","7","-","1","5">>,
       vote_count |-> 20, vote_average |-> 70],
      [id |-> 3, title |-> <<"U","p">>,
       release_date |-> <<"1","9","9","5","-","1","2","-","1","5">>,
       vote_count |-> 50, vote_average |-> 80],
      [id |-> 4, title |-> <<"U","p"," ","2">>,
       release_date |-> <<>>,
       vote_count |-> 0, vote_average |-> 0] }

\* the non-empty result arrays: up to MaxResults distinct candidates in any order
ResultLists ==
    { rs \in UNION { [1..n -> Candidates] : n \in 1..MaxResults } :
         \A i, j \in 1..Len(rs) : i # j => rs[i].id # rs[j].id }

\* an upstream call that failed: an HTTP error status, or no response at all
UpstreamErrors ==
    { [message |-> "Request failed with status code 401", hasStatus |-> TRUE, status |-> 401],
      [message |-> "Request failed with status code 404", hasStatus |-> TRUE, status |-> 404],
      [message |-> "Network Error", hasStatus |-> FALSE, status |-> 0] }

\* what a search call can come back with: results, an empty array, a body
\* without results, or a failure
SearchOutcomes ==
    { [failed |-> FALSE, error |-> NoError, hasResults |-> TRUE, results |-> rs] :
         rs \in ResultLists \cup {<<>>} }
    \cup { [failed |-> FALSE, error |-> NoError, hasResults |-> FALSE, results |-> <<>>] }
    \cup { [failed |-> TRUE, error |-> e, hasResults |-> FALSE, results |-> <<>>] :
              e \in UpstreamErrors }

NoDetail == [failed |-> FALSE, error |-> NoError, missing |-> {}]

\* what the detail call can come back with: a movie with all the fields, with
\* one of them missing, with none of them, or a failure
DetailOutcomes ==
    { [NoDetail EXCEPT !.missing = m] :
         m \in {{}, DetailFields} \cup { {f} : f \in DetailFields } }
    \cup { [NoDetail EXCEPT !.failed = TRUE, !.error = e] : e \in UpstreamErrors }

NoTrending == [kind |-> "none", status |-> 0]

\* what the trending fetch can come back with: a 2xx response whose JSON has
\* results, one whose JSON has none, one whose body is not JSON, a response
\* with an HTTP error status, or no response at all
TrendingOutcomes ==
    { [kind |-> k, status |-> 200] : k \in {"results", "noResults", "notJSON"} }
    \cup { [kind |-> "http", status |-> st] : st \in {401, 404} }
    \cup { [kind |-> "network", status |-> 0] }

MovieNames ==
    { <<"T","h","e"," ","U","p"," ","(","1","9","9","5",")"," ","-"," ","D">>,
      <<"U","p"," ","(","1","9","9","5",")">>,
      <<"T","h","e"," ","U","p">>,
      <<>> }

\* a request body: JSON with the fields it has, or text request.json() rejects
NoBody == [malformed |-> FALSE, hasMovieName |-> FALSE, movieName |-> <<>>,
           hasMovies |-> FALSE, movies |-> <<>>, excludeMovies |-> <<>>]

MalformedBody == [NoBody EXCEPT !.malformed = TRUE]

MovieBodies ==
    { [NoBody EXCEPT !.hasMovieName = TRUE, !.movieName = n] : n \in MovieNames }
    \cup { NoBody, MalformedBody }

\* lines the completion may emit
LinePool ==
    { <<"U","p"," ","(","2","0","0","9",")"," ","-"," ","D">>,
      <<"u","p"," ","(","2","0","0","9",")">>,
      <<"U","p"," ">>,
      <<"(","5",")"," ","U","p"," ","(","2","0","0","9",")">>,
      <<"I","t"," ","(","2","0","1","7",")">>,
      <<" ">> }

\* entries of excludeMovies: input movies and lines shown before
ExcludePool ==
    { <<"U","p"," ","(","2","0","0","9",")"," ","-"," ","D">>,
      <<"U","P">>,
      <<"(","5",")"," ","U","p"," ","(","2","0","0","9",")">>,
      <<"I","t"," ","(","2","0","1","7",")">>,
      <<"H","e","a","t">> }

RECURSIVE JoinLines(_)
JoinLines(ls) ==
    IF ls = <<>> THEN <<>>
    ELSE IF Len(ls) = 1 THEN ls[1]
    ELSE ls[1] \o <<"\n">> \o JoinLines(Tail(ls))

CompletionTexts == { JoinLines(ls) : ls \in UNION { [1..n -> LinePool] : n \in 0..MaxLines } }

NoCompletion == [failed |-> FALSE, error |-> NoError, hasChoice |-> TRUE,
                 hasContent |-> FALSE, content |-> <<>>]

\* what the chat-completion call can come back with: a text, a null content,
\* an empty choices array, or a failure
CompletionOutcomes ==
    { [NoCompletion EXCEPT !.hasContent = TRUE, !.content = t] : t \in CompletionTexts }
    \cup { NoCompletion, [NoCompletion EXCEPT !.hasChoice = FALSE] }
    \cup { [NoCompletion EXCEPT !.failed = TRUE, !.error = e] : e \in UpstreamErrors }

RecommendBodies ==
    { [NoBody EXCEPT !.hasMovies = TRUE, !.movies = m, !.excludeMovies = ex] :
         m \in { <<>>, <<"U","p">> },
         ex \in UNION { [1..n -> ExcludePool] : n \in 0..MaxExclude } }
    \cup { NoBody, MalformedBody }

MovieRoutes == {"description", "modal", "modal2"}

\* the server's offset from UTC in hours
TimezoneOffsets == {0, -5}

Environments ==
    [TMDB_API_KEY : BOOLEAN, OPENAI_API_KEY : BOOLEAN, tz : TimezoneOffsets]

(***************************************************************************)
(* Ranking of the candidates.                                              *)
(***************************************************************************)
RECURSIVE DigitsToNat(_)
DigitsToNat(ds) ==
    IF ds = <<>> THEN 0
    ELSE 10 * DigitsToNat(SubSeq(ds, 1, Len(ds) - 1))
         + (CHOOSE v \in 0..9 : <<"0","1","2","3","4","5","6","7","8","9">>[v + 1] = ds[Len(ds)])

\* Number.prototype.toString of a natural number
RECURSIVE NatToDigits(_)
NatToDigits(n) ==
    IF n < 10 THEN << <<"0","1","2","3","4","5","6","7","8","9">>[n + 1] >>
    ELSE NatToDigits(n \div 10) \o NatToDigits(n % 10)

\* new Date(release_date) of a date-only form "YYYY-MM-DD": midnight UTC of that
\* day; anything else the service sends (the empty string) is an Invalid Date
ParseDate(d) ==
    IF /\ Len(d) = 10
       /\ \A i \in {1, 2, 3, 4, 6, 7, 9, 10} : IsDigit(d[i])
       /\ d[5] = "-" /\ d[8] = "-"
    THEN [valid |-> TRUE, y |-> DigitsToNat(SubSeq(d, 1, 4)),
          m |-> DigitsToNat(SubSeq(d, 6, 7)), d |-> DigitsToNat(SubSeq(d, 9, 10))]
    ELSE [valid |-> FALSE, y |-> 0, m |-> 0, d |-> 0]

\* new Date(release_date).getFullYear().toString(): the year of that instant in
\* the server's local time; west of UTC midnight UTC is the evening before
FullYearString(release_date, tz) ==
    LET date == ParseDate(release_date)
    IN  IF ~date.valid THEN <<"N","a","N">>
        ELSE IF tz < 0 /\ date.m = 1 /\ date.d = 1 THEN NatToDigits(date.y - 1)
        ELSE NatToDigits(date.y)

ExactTitle(c, t) == IF toLowerCase(c.title) = toLowerCase(t) THEN 1 ELSE 0

ExactYear(c, y, tz) ==
    IF y # <<>> /\ FullYearString(c.release_date, tz) = y THEN 1 ELSE 0

CombinedScore(c, t, y, tz) == ExactTitle(c, t) * 2 + ExactYear(c, y, tz)

\* x || 0
OrZero(x) == IF x = 0 THEN 0 ELSE x

Popularity(c) == OrZero(c.vote_count) * OrZero(c.vote_average)

\* the comparator of searchResponse.data.results.sort
Compare(a, b, t, y, tz) ==
    IF CombinedScore(a, t, y, tz) # CombinedScore(b, t, y, tz)
    THEN CombinedScore(b, t, y, tz) - CombinedScore(a, t, y, tz)
    ELSE Popularity(b) - Popularity(a)

\* Array.prototype.sort is stable: an element is placed after the elements it
\* does not precede
RECURSIVE InsertSorted(_, _, _, _, _)
InsertSorted(sorted, c, t, y, tz) ==
    IF sorted = <<>> THEN <<c>>
    ELSE IF Compare(c, Head(sorted), t, y, tz) < 0 THEN <<c>> \o sorted
    ELSE <<Head(sorted)>> \o InsertSorted(Tail(sorted), c, t, y, tz)

RECURSIVE SortFrom(_, _, _, _, _, _)
SortFrom(rs, i, acc, t, y, tz) ==
    IF i > Len(rs) THEN acc
    ELSE SortFrom(rs, i + 1, InsertSorted(acc, rs[i], t, y, tz), t, y, tz)

sortedResults(rs, t, y, tz) == SortFrom(rs, 1, <<>>, t, y, tz)

(***************************************************************************)
(* POST /description, POST /modal and the second POST of modal/route.ts    *)
(* ("modal2").                                                             *)
(***************************************************************************)
\* !searchResponse.data.results || searchResponse.data.results.length === 0
NoResults(out) == ~out.hasResults \/ Len(out.results) = 0

\* the query of the search call of a stage
SearchQuery(r, stage, t, y) ==
    IF stage = "search1"
    THEN [query |-> IF r = "modal2" THEN cleanMovieTitle(t) ELSE t, year |-> y]
    ELSE IF stage = "search2" THEN [query |-> cleanMovieTitle(t), year |-> y]
    ELSE [query |-> cleanMovieTitle(t), year |-> <<>>]

\* a fallback that goes straight to the broad search
SkipToBroadSearch(r, stage) == "search3"

\* the search a handler falls back to after a stage without results
NextStage(r, stage) ==
    IF stage = "search1" /\ r # "modal2" THEN "search2" ELSE "search3"

\* the first result as the service ordered it, without the ranking
TakeFirstResult(r, rs, t, y, tz) == rs[1]

\* the candidate a handler takes from the results
SelectCandidate(r, rs, t, y, tz) ==
    IF r = "modal2" THEN rs[1] ELSE sortedResults(rs, t, y, tz)[1]

\* append_to_response of the detail call
AppendToResponse(r) ==
    IF r = "description" THEN {"credits", "watch/providers"}
    ELSE {"credits", "videos", "watch/providers"}

\* a catch block that forwards whatever status the error carries
CatchForwardingStatus(e, keyConfigured, generic) ==
    [sent |-> TRUE, status |-> e.status,
     error |-> IF ~keyConfigured THEN "API key not configured properly"
               ELSE IF e.hasStatus /\ e.status = 401 THEN "Invalid API key"
               ELSE IF e.message # "" THEN "Error: " \o e.message
               ELSE generic,
     success |-> FALSE, id |-> 0, recommendations |-> <<>>, fields |-> NoFields]

\* a catch block that always answers with its generic message
CatchWithGenericMessage(e, keyConfigured, generic) ==
    [sent |-> TRUE, status |-> IF e.hasStatus /\ e.status # 0 THEN e.status ELSE 500,
     error |-> generic, success |-> FALSE, id |-> 0, recommendations |-> <<>>,
     fields |-> NoFields]

\* the catch block: the JSON error body and its status
CatchResponse(e, keyConfigured, generic) ==
    [NoResponse EXCEPT
        !.sent = TRUE,
        !.error = IF ~keyConfigured THEN "API key not configured properly"
                  ELSE IF e.hasStatus /\ e.status = 401 THEN "Invalid API key"
                  ELSE IF e.message # "" THEN "Error: " \o e.message
                  ELSE generic,
        !.status = IF e.hasStatus /\ e.status # 0 THEN e.status ELSE 500]

ErrorResponse(status, message) ==
    [NoResponse EXCEPT !.sent = TRUE, !.status = status, !.error = message]

NotFound == [message |-> "Movie not found", hasStatus |-> FALSE, status |-> 0]

MovieRequiredMessage(r) ==
    IF r = "description" THEN "Please provide a movie title" ELSE "Movie name is required"

\* a 500 without a message
NoMessage(r) == ""

MovieKeyMessage(r) ==
    IF r = "description" THEN "Movie API key is not configured" ELSE "TMDB API key not configured"

\* a check that rejects only a field the body does not have
OnlyUndefined(has, value) == ~has

\* !value of a string field of the body: absent, or the empty string
Falsy(has, value) == ~has \/ value = <<>>

\* what request.json() throws on a body that is not JSON
BodySyntaxError ==
    [message |-> "Unexpected end of JSON input", hasStatus |-> FALSE, status |-> 0]

\* the TypeError of reading a property of undefined
TypeErrorReading(property) ==
    [message |-> "Cannot read properties of undefined (reading '" \o property \o "')",
     hasStatus |-> FALSE, status |-> 0]

\* the handler up to its first search call
PostMovie(r, b) ==
    /\ pc = "idle"
    /\ route' = r
    /\ body' = b
    /\ IF b.malformed
       THEN /\ response' = CatchResponse(BodySyntaxError, env.TMDB_API_KEY, "Failed to get movie details")
            /\ pc' = "done"
            /\ UNCHANGED <<title, year, searchLog>>
       ELSE IF Falsy(b.hasMovieName, b.movieName)
       THEN /\ response' = ErrorResponse(400, MovieRequiredMessage(r))
            /\ pc' = "done"
            /\ UNCHANGED <<title, year, searchLog>>
       ELSE IF ~env.TMDB_API_KEY
       THEN /\ response' = ErrorResponse(500, MovieKeyMessage(r))
            /\ pc' = "done"
            /\ UNCHANGED <<title, year, searchLog>>
       ELSE LET parsed == extractMovieInfo(b.movieName)
            IN  /\ title' = parsed.title
                /\ year' = parsed.year
                /\ searchLog' = Append(searchLog, SearchQuery(r, "search1", parsed.title, parsed.year))
                /\ pc' = "search1"
                /\ UNCHANGED response
    /\ UNCHANGED <<pvars, cvars, env, searchReplies, results, movieData, detailLog,
                   completionLog, completion, detail, trendingLog, trending>>

\* a search call returns: fall back to the next search, give up, or select a
\* candidate and issue the detail call
SearchReturns(out) ==
    /\ pc \in {"search1", "search2", "search3"}
    /\ route \in MovieRoutes
    /\ searchReplies' = Append(searchReplies, out)
    /\ IF out.failed
       THEN /\ response' = CatchResponse(out.error, env.TMDB_API_KEY, "Failed to get movie details")
            /\ pc' = "done"
            /\ UNCHANGED <<searchLog, results, movieData, detailLog>>
       ELSE IF NoResults(out) /\ pc = "search3"
       THEN /\ response' = CatchResponse(NotFound, env.TMDB_API_KEY, "Failed to get movie details")
            /\ pc' = "done"
            /\ UNCHANGED <<searchLog, results, movieData, detailLog>>
       ELSE IF NoResults(out)
       THEN /\ searchLog' = Append(searchLog, SearchQuery(route, NextStage(route, pc), title, year))
            /\ pc' = NextStage(route, pc)
            /\ UNCHANGED <<results, movieData, detailLog, response>>
       ELSE LET chosen == SelectCandidate(route, out.results, title, year, env.tz)
            IN  /\ results' = out.results
                /\ movieData' = chosen
                /\ detailLog' = Append(detailLog, [id |-> chosen.id, append |-> AppendToResponse(route)])
                /\ pc' = "detail"
                /\ UNCHANGED <<searchLog, response>>
    /\ UNCHANGED <<pvars, cvars, env, route, body, title, year, completionLog, completion,
                   detail, trendingLog, trending>>

\* the fields of movie_data a handler reads a property of without guarding,
\* in the order it reads them, each with the property read
Dereferenced(r) ==
    IF r = "description"
    THEN << <<"genres", "map">>, <<"credits.cast", "slice">>, <<"vote_average", "toFixed">> >>
    ELSE << <<"genres", "map">>, <<"credits.crew", "find">>, <<"credits.cast", "slice">> >>

\* the reads of Dereferenced(r) that throw when the fields of missing are absent
Throwing(r, missing) ==
    {i \in 1..Len(Dereferenced(r)) : Dereferenced(r)[i][1] \in missing}

\* what the success body holds for each field of movie_data: its value, or
\* what the handler puts in place of an absent one
DetailBody(r, missing) ==
    [f \in DetailFields |->
        IF r = "description" /\ f \in {"videos", "credits.crew"} THEN "none"
        ELSE IF f \notin missing THEN "value"
        ELSE IF f = "poster_path" THEN "null"
        ELSE IF f = "videos" THEN "null"
        ELSE IF f = "watch/providers" THEN (IF r = "description" THEN "text" ELSE "[]")
        ELSE IF f = "runtime" THEN (IF r = "description" THEN "NaN" ELSE "undefined")
        ELSE "undefined"]

\* the processing of the detail response
DetailResponse(r, missing, id, keyConfigured) ==
    IF Throwing(r, missing) # {}
    THEN LET first == CHOOSE i \in Throwing(r, missing) : \A j \in Throwing(r, missing) : i <= j
         IN  CatchResponse(TypeErrorReading(Dereferenced(r)[first][2]), keyConfigured,
                           "Failed to get movie details")
    ELSE [NoResponse EXCEPT !.sent = TRUE, !.status = 200, !.success = TRUE, !.id = id,
                            !.fields = DetailBody(r, missing)]

\* the detail call returns
DetailReturns(out) ==
    /\ pc = "detail"
    /\ detail' = out
    /\ IF out.failed
       THEN response' = CatchResponse(out.error, env.TMDB_API_KEY, "Failed to get movie details")
       ELSE response' = DetailResponse(route, out.missing, movieData.id, env.TMDB_API_KEY)
    /\ pc' = "done"
    /\ UNCHANGED <<pvars, cvars, env, route, body, title, year, searchLog, searchReplies,
                   results, movieData, detailLog, completionLog, completion,
                   trendingLog, trending>>

(***************************************************************************)
(* POST /recommend with the exclusion list.                                *)
(***************************************************************************)
\* recommendations.split('\n')
RECURSIVE SplitLines(_)
SplitLines(s) ==
    LET n == IndexOfFrom(s, "\n", 1)
    IN  IF n > Len(s) THEN <<s>>
        ELSE <<SubSeq(s, 1, n - 1)>> \o SplitLines(SubSeq(s, n + 1, Len(s)))

\* line => line.trim() !== ''
IsNonBlank(line) == trim(line) # <<>>

\* recommendation.match(/^(.+?)\s*\(/) and the title taken from it
RecTitle(recommendation) ==
    LET ends == {j \in 1..Len(recommendation) :
                    /\ DotRun(recommendation, 1, j)
                    /\ SkipWhitespace(recommendation, j + 1) <= Len(recommendation)
                    /\ recommendation[SkipWhitespace(recommendation, j + 1)] = "("}
    IN  IF ends = {} THEN toLowerCase(recommendation)
        ELSE toLowerCase(trim(SubSeq(recommendation, 1, CHOOSE a \in ends : \A b \in ends : a <= b)))

\* excludedMovie.split('(')[0].trim().toLowerCase()
ExcludedTitle(excludedMovie) == toLowerCase(trim(SplitFirst(excludedMovie, "(")))

\* the filter's predicate: the recommendation matches no excluded movie
KeepRecommendation(recommendation, excludeMovies) ==
    ~\E k \in 1..Len(excludeMovies) : RecTitle(recommendation) = ExcludedTitle(excludeMovies[k])

\* a filtering that also runs with an empty exclusion list
FilterAlways(content, excludeMovies) ==
    LET Keep(line) == KeepRecommendation(line, excludeMovies)
    IN  JoinLines(SelectSeq(SelectSeq(SplitLines(content), IsNonBlank), Keep))

\* the server-side filtering of the completion's text
FilterRecommendations(content, excludeMovies) ==
    IF Len(excludeMovies) > 0
    THEN LET recommendationLines == SelectSeq(SplitLines(content), IsNonBlank)
             Keep(line) == KeepRecommendation(line, excludeMovies)
         IN  JoinLines(SelectSeq(recommendationLines, Keep))
    ELSE content

\* the handler up to its completion call
PostRecommend(b) ==
    /\ pc = "idle"
    /\ route' = "recommend"
    /\ body' = b
    /\ IF ~env.OPENAI_API_KEY
       THEN /\ response' = ErrorResponse(500, "OpenAI API key is not configured")
            /\ pc' = "done"
            /\ UNCHANGED completionLog
       ELSE IF b.malformed
       THEN /\ response' = CatchResponse(BodySyntaxError, env.OPENAI_API_KEY, "Failed to get recommendations")
            /\ pc' = "done"
            /\ UNCHANGED completionLog
       ELSE IF Falsy(b.hasMovies, b.movies)
       THEN /\ response' = ErrorResponse(400, "Please provide a list of movies")
            /\ pc' = "done"
            /\ UNCHANGED completionLog
       ELSE /\ completionLog' = Append(completionLog, [movies |-> b.movies, excludeMovies |-> b.excludeMovies])
            /\ pc' = "completion"
            /\ UNCHANGED response
    /\ UNCHANGED <<pvars, cvars, env, title, year, searchLog, searchReplies, results,
                   movieData, detailLog, completion, detail, trendingLog, trending>>

\* the completion call returns
CompletionReturns(out) ==
    /\ pc = "completion"
    /\ completion' = out
    /\ IF out.failed
       THEN response' = CatchResponse(out.error, env.OPENAI_API_KEY, "Failed to get recommendations")
       ELSE IF ~out.hasChoice
       THEN response' = CatchResponse(TypeErrorReading("message"), env.OPENAI_API_KEY,
                                      "Failed to get recommendations")
       ELSE response' = [NoResponse EXCEPT
                !.sent = TRUE, !.status = 200, !.success = TRUE,
                !.recommendations =
                    FilterRecommendations(IF out.hasContent THEN out.content ELSE <<>>,
                                          body.excludeMovies)]
    /\ pc' = "done"
    /\ UNCHANGED <<pvars, cvars, env, route, body, title, year, searchLog, searchReplies,
                   results, movieData, detailLog, completionLog, detail, trendingLog,
                   trending>>

(***************************************************************************)
(* GET /trending.                                                          *)
(***************************************************************************)
\* what the handler's try block throws on a fetch outcome
TrendingThrown(out) ==
    IF out.kind = "http"
    THEN [message |-> "Failed to fetch trending movies: " \o ToString(out.status),
          hasStatus |-> FALSE, status |-> 0]
    ELSE IF out.kind = "noResults" THEN TypeErrorReading("length")
    ELSE IF out.kind = "notJSON" THEN BodySyntaxError
    ELSE [message |-> "fetch failed", hasStatus |-> FALSE, status |-> 0]

\* the catch block: a fixed message, status tmdbError.response?.status || 500
TrendingCatch(e) ==
    ErrorResponse(IF e.hasStatus /\ e.status # 0 THEN e.status ELSE 500,
                  "Failed to fetch trending movies")

\* the handler up to its fetch
GetTrending ==
    /\ pc = "idle"
    /\ route' = "trending"
    /\ IF ~env.TMDB_API_KEY
       THEN /\ response' = ErrorResponse(500, "Server configuration error: TMDB API key is missing.")
            /\ pc' = "done"
            /\ UNCHANGED trendingLog
       ELSE /\ trendingLog' = Append(trendingLog, "trending/movie/week")
            /\ pc' = "trending"
            /\ UNCHANGED response
    /\ UNCHANGED <<pvars, cvars, env, body, title, year, searchLog, searchReplies, results,
                   movieData, detailLog, completionLog, completion, detail, trending>>

\* the fetch returns
TrendingReturns(out) ==
    /\ pc = "trending"
    /\ trending' = out
    /\ IF out.kind = "results"
       THEN response' = [NoResponse EXCEPT !.sent = TRUE, !.status = 200, !.success = TRUE]
       ELSE response' = TrendingCatch(TrendingThrown(out))
    /\ pc' = "done"
    /\ UNCHANGED <<pvars, cvars, env, route, body, title, year, searchLog, searchReplies,
                   results, movieData, detailLog, completionLog, completion, detail,
                   trendingLog>>

(***************************************************************************)
(* The page component (page.tsx).  One action per synchronous run of a     *)
(* handler: from a click to the handler's first await, and from a response *)
(* to the handler's end.  A handler sees the state of the render it was    *)
(* created in, so what it reads after an await is what it read at the      *)
(* click; its setState calls with an updater function see the state of the *)
(* moment they run.                                                        *)
(***************************************************************************)
\* the requests the user's clicks start in one run of the page (submit, get
\* more, details, modal); the poster loads they set off come on top
MaxRequests == 3

\* what the user types into the input box
ClientInputs == { <<"X",","," ","I","t">> }

\* the recommendation texts /recommend answers with
ClientTexts ==
    { <<"U","p"," ","(","2","0","0","9",")">>,
      <<"(","5","0","0",")"," ","D","a","y","s","\n","U","p">> }

Range(f) == {f[i] : i \in DOMAIN f}

\* response.data.recommendations.split('\n').filter(line => line.trim() !== '')
NonBlankLines(text) == SelectSeq(SplitLines(text), IsNonBlank)

\* the keys the caches can hold
ClientLines == UNION { Range(NonBlankLines(t)) : t \in ClientTexts }

NullText == [isNull |-> TRUE, text |-> <<>>]

Text(t) == [isNull |-> FALSE, text |-> t]

\* a string or null used as a condition
Truthy(text) == ~text.isNull /\ text.text # <<>>

NoDescription == [present |-> FALSE, description |-> "", poster_path |-> "", title |-> <<>>]

NoModalData == [present |-> FALSE, description |-> "", poster_path |-> "", title |-> <<>>]

\* the index of the first " (" of s at or after i, Len(s) + 1 if there is none
RECURSIVE IndexOfSpaceParen(_, _)
IndexOfSpaceParen(s, i) ==
    IF i > Len(s) THEN i
    ELSE IF i < Len(s) /\ s[i] = " " /\ s[i + 1] = "(" THEN i
    ELSE IndexOfSpaceParen(s, i + 1)

\* movie.split(' (')[0]
BeforeSpaceParen(movie) == SubSeq(movie, 1, IndexOfSpaceParen(movie, 1) - 1)

\* a fetchDescription that stores nothing when the fetch fails
NoPlaceholder(movie) == NoDescription

\* the entry fetchDescription stores when the fetch fails
PlaceholderDescription(movie) ==
    [present |-> TRUE, description |-> "Failed to load description.",
     poster_path |-> "", title |-> movie]

\* a fetchModalData that stores nothing when the fetch fails
NoModalPlaceholder(movie) == NoModalData

\* the entry fetchModalData stores when the fetch fails
PlaceholderModalData(movie) ==
    [present |-> TRUE, description |-> "Failed to load movie details.",
     poster_path |-> "", title |-> BeforeSpaceParen(movie)]

\* what POST /description answers: a body with or without a poster and a
\* rating line, or an error
DescriptionReplies ==
    { [ok |-> TRUE, poster |-> TRUE, rating |-> TRUE],
      [ok |-> TRUE, poster |-> FALSE, rating |-> FALSE],
      [ok |-> FALSE, poster |-> FALSE, rating |-> FALSE] }

\* a response whose data the handlers store nothing of
StoresNothing(movie, out) == NoDescription

\* response.data of a successful POST /description
DescriptionData(movie, out) ==
    [present |-> TRUE,
     description |-> IF out.rating THEN "overview, rating" ELSE "overview",
     poster_path |-> IF out.poster THEN "url" ELSE "",
     title |-> BeforeSpaceParen(movie)]

\* response.data of a successful POST /modal
ModalData(movie) ==
    [present |-> TRUE, description |-> "overview", poster_path |-> "url",
     title |-> BeforeSpaceParen(movie)]

\* what comes of a request to /recommend: a text of the completion, an error
\* body, or no response
RecommendOutcomes ==
    { [ok |-> TRUE, text |-> t, message |-> ""] : t \in ClientTexts }
    \cup { [ok |-> FALSE, text |-> <<>>, message |-> "Invalid API key"] }

\* inputText.split(',') and the like
RECURSIVE SplitBy(_, _)
SplitBy(s, c) ==
    LET n == IndexOfFrom(s, c, 1)
    IN  IF n > Len(s) THEN <<s>>
        ELSE <<SubSeq(s, 1, n - 1)>> \o SplitBy(SubSeq(s, n + 1, Len(s)), c)

MapTrim(ss) == [i \in 1..Len(ss) |-> trim(ss[i])]

NonEmpty(x) == Len(x) > 0

parseInputMovies(inputText) ==
    IF trim(inputText) = <<>> THEN <<>>
    ELSE SelectSeq(MapTrim(SplitBy(inputText, ",")), NonEmpty)

\* [...new Set(list)]: the first occurrence of each element, in order
RECURSIVE Unique(_)
Unique(list) ==
    IF list = <<>> THEN <<>>
    ELSE LET front == Unique(SubSeq(list, 1, Len(list) - 1))
             last == list[Len(list)]
         IN  IF last \in Range(front) THEN front ELSE Append(front, last)

\* movie.split(' (')[0].toLowerCase().trim()
TitlePart(movie) == trim(toLowerCase(BeforeSpaceParen(movie)))

RECURSIVE DropSeen(_, _)
DropSeen(lines, seen) ==
    IF lines = <<>> THEN <<>>
    ELSE IF TitlePart(Head(lines)) \in seen THEN DropSeen(Tail(lines), seen)
    ELSE <<Head(lines)>> \o DropSeen(Tail(lines), seen \cup {TitlePart(Head(lines))})

\* a page that displays no line
ShowNothing(text) == <<>>

\* the lines the page displays
parseRecommendations(text) ==
    IF ~Truthy(text) THEN <<>> ELSE DropSeen(NonBlankLines(text.text), {})

\* the values the recommendations state takes
RecommendationTexts ==
    {NullText} \cup
    { LET Kept(line) == line \in kept
      IN  Text(JoinLines(SelectSeq(NonBlankLines(t), Kept))) :
          t \in ClientTexts, kept \in SUBSET ClientLines }

\* parseRecommendations of each of them
Displayed == [text \in RecommendationTexts |-> parseRecommendations(text)]

recommendationList == Displayed[recommendations]

NoStep == [name |-> "none", movie |-> <<>>, before |-> <<>>, sent |-> <<>>,
           closurePrevious |-> <<>>, returned |-> <<>>]

\* a step no statement below is about
OtherStep == [NoStep EXCEPT !.name = "other"]

NoRequest == [id |-> 0, kind |-> "none", movie |-> <<>>, movies |-> <<>>, inputMovies |-> <<>>,
              excludeMovies |-> <<>>, previousMovies |-> <<>>, guarded |-> {}]

NextRequestId == issued + 1

NoLatest == [id |-> 0, answered |-> FALSE, ok |-> FALSE, text |-> <<>>, previous |-> <<>>]

\* a handler that leaves the line's loading flag as it is when the fetch is over
LeaveFlag(flags, movie) == flags

\* a handler that resets the loading flag of every line when its fetch is over
ResetEveryFlag(flags, movie) == [l \in DOMAIN flags |-> FALSE]

\* the finally block of a per-line handler: { ...prev, [movie]: false }
ResetFlag(flags, movie) == [flags EXCEPT ![movie] = FALSE]

\* the lines loadMobilePoster returns at once for, as a handler created in
\* this render sees them
Guarded == {l \in ClientLines : mobilePosters[l] # "" \/ loadingMobilePosters[l]}

\* the first index after i of a line loadMobilePoster fetches, 0 if none
NextToLoad(list, i, guarded) ==
    LET todo == {j \in (i + 1)..Len(list) : list[j] \notin guarded}
    IN  IF todo = {} THEN 0 ELSE CHOOSE j \in todo : \A k \in todo : j <= k

InitClient ==
    /\ movies = <<>>
    /\ recommendations = NullText
    /\ isLoading = FALSE
    /\ isLoadingMore = FALSE
    /\ error = ""
    /\ descriptions = [l \in ClientLines |-> NoDescription]
    /\ loadingDescriptions = [l \in ClientLines |-> FALSE]
    /\ showingDetails = [l \in ClientLines |-> FALSE]
    /\ modalData = [l \in ClientLines |-> NoModalData]
    /\ loadingModal = [l \in ClientLines |-> FALSE]
    /\ mobilePosters = [l \in ClientLines |-> ""]
    /\ loadingMobilePosters = [l \in ClientLines |-> FALSE]
    /\ mobileRatings = [l \in ClientLines |-> ""]
    /\ previousMovies = <<>>
    /\ inFlight = {}
    /\ loaders = {}
    /\ issued = 0
    /\ shown = {}
    /\ lastStep = NoStep
    /\ modalMovie = NullText
    /\ latest = NoLatest

\* onChange of the input box
SetMovies(text) ==
    /\ text # movies
    /\ movies' = text
    /\ lastStep' = OtherStep
    /\ UNCHANGED <<recommendations, isLoading, isLoadingMore, error, descriptions,
                   loadingDescriptions, showingDetails, modalData, loadingModal,
                   mobilePosters, loadingMobilePosters, mobileRatings, previousMovies,
                   inFlight, loaders, issued, shown, modalMovie, latest>>
    /\ UNCHANGED <<pvars, svars>>

\* handleSubmit up to its await; the Enter key calls it whatever isLoading is
HandleSubmit ==
    /\ issued < MaxRequests
    /\ isLoading' = TRUE
    /\ error' = ""
    /\ recommendations' = NullText
    /\ descriptions' = [l \in ClientLines |-> NoDescription]
    /\ showingDetails' = [l \in ClientLines |-> FALSE]
    /\ previousMovies' = <<>>
    /\ inFlight' = inFlight \cup
          { [NoRequest EXCEPT !.id = NextRequestId, !.kind = "submit", !.movies = movies,
                              !.inputMovies = parseInputMovies(movies),
                              !.excludeMovies = parseInputMovies(movies),
                              !.previousMovies = previousMovies,
                              !.guarded = Guarded] }
    /\ issued' = issued + 1
    /\ shown' = {}
    /\ lastStep' = [NoStep EXCEPT !.name = "submit"]
    /\ latest' = [NoLatest EXCEPT !.id = NextRequestId]
    /\ UNCHANGED <<movies, isLoadingMore, loadingDescriptions, modalData, loadingModal,
                   mobilePosters, loadingMobilePosters, mobileRatings, loaders, modalMovie>>
    /\ UNCHANGED <<pvars, svars>>

\* handleGetMoreMovies up to its await; its button shows with the results and
\* is disabled while isLoadingMore
HandleGetMoreMovies ==
    /\ Truthy(recommendations)
    /\ ~isLoadingMore
    /\ issued < MaxRequests
    /\ isLoadingMore' = TRUE
    /\ error' = ""
    /\ descriptions' = [l \in ClientLines |-> NoDescription]
    /\ showingDetails' = [l \in ClientLines |-> FALSE]
    /\ LET allExcludedMovies == Unique(parseInputMovies(movies) \o previousMovies)
       IN  /\ inFlight' = inFlight \cup
                 { [NoRequest EXCEPT !.id = NextRequestId, !.kind = "more", !.movies = movies,
                                     !.inputMovies = parseInputMovies(movies),
                                     !.excludeMovies = allExcludedMovies,
                                     !.previousMovies = previousMovies,
                                     !.guarded = Guarded] }
           /\ lastStep' = [NoStep EXCEPT !.name = "more", !.before = recommendationList,
                                         !.sent = allExcludedMovies,
                                         !.closurePrevious = previousMovies]
    /\ issued' = issued + 1
    /\ latest' = [NoLatest EXCEPT !.id = NextRequestId]
    /\ UNCHANGED <<movies, recommendations, isLoading, loadingDescriptions, modalData,
                   loadingModal, mobilePosters, loadingMobilePosters, mobileRatings,
                   previousMovies, loaders, shown, modalMovie>>
    /\ UNCHANGED <<pvars, svars>>

\* what the route answers to a request, given what comes of its completion call
RecommendReply(req, out) ==
    IF Falsy(TRUE, req.movies)
    THEN [ok |-> FALSE, text |-> <<>>, message |-> "Please provide a list of movies"]
    ELSE IF out.ok
    THEN [out EXCEPT !.text = FilterRecommendations(out.text, req.excludeMovies)]
    ELSE out

\* handleSubmit / handleGetMoreMovies from the response on, with the start of
\* loadAllMobilePosters
RecommendReturns(req, out) ==
    /\ req \in inFlight
    /\ req.kind \in {"submit", "more"}
    /\ inFlight' = inFlight \ {req}
    /\ IF req.kind = "submit"
       THEN isLoading' = FALSE /\ UNCHANGED isLoadingMore
       ELSE isLoadingMore' = FALSE /\ UNCHANGED isLoading
    /\ \E reply \in {RecommendReply(req, out)} :
       /\ LET movieList == NonBlankLines(reply.text)
              first == NextToLoad(movieList, 0, req.guarded)
          IN
           IF reply.ok
           THEN /\ recommendations' = Text(reply.text)
                /\ previousMovies' = IF req.kind = "submit" THEN req.inputMovies \o movieList
                                     ELSE previousMovies \o movieList
                /\ loaders' = IF first = 0 THEN loaders
                              ELSE loaders \cup
                                   { [id |-> req.id, list |-> movieList, guarded |-> req.guarded,
                                      i |-> IF first = 1 THEN 1 ELSE first - 1,
                                      phase |-> IF first = 1 THEN "fetch" ELSE "sleep"] }
                /\ loadingMobilePosters' =
                      IF first = 1 THEN [loadingMobilePosters EXCEPT ![movieList[1]] = TRUE]
                      ELSE loadingMobilePosters
                /\ shown' = shown \cup Range(movieList)
                /\ lastStep' = IF req.kind = "submit"
                               THEN OtherStep
                               ELSE [NoStep EXCEPT !.name = "moreOk",
                                                   !.before = recommendationList,
                                                   !.closurePrevious = req.previousMovies,
                                                   !.returned = movieList]
                /\ UNCHANGED error
           ELSE /\ error' = IF reply.message # "" THEN reply.message
                            ELSE IF req.kind = "submit"
                            THEN "Failed to get recommendations. Please try again."
                            ELSE "Failed to get more recommendations. Please try again."
                /\ lastStep' = IF req.kind = "submit"
                               THEN OtherStep
                               ELSE [NoStep EXCEPT !.name = "moreFailed",
                                                   !.before = recommendationList]
                /\ UNCHANGED <<recommendations, previousMovies, loaders,
                               loadingMobilePosters, shown>>
       /\ latest' = IF req.id = latest.id
                    THEN [latest EXCEPT !.answered = TRUE, !.ok = reply.ok, !.text = reply.text,
                                        !.previous = previousMovies']
                    ELSE latest
    /\ UNCHANGED <<movies, descriptions, loadingDescriptions, showingDetails, modalData,
                   loadingModal, mobilePosters, mobileRatings, issued, modalMovie>>
    /\ UNCHANGED <<pvars, svars>>

\* loadMobilePoster from the response on, and the loop of loadAllMobilePosters
\* up to its timer
PosterReturns(ld, out) ==
    /\ ld \in loaders
    /\ ld.phase = "fetch"
    /\ LET movie == ld.list[ld.i]
       IN  /\ loadingMobilePosters' = ResetFlag(loadingMobilePosters, movie)
           /\ IF out.ok
              THEN /\ mobilePosters' = IF out.poster THEN [mobilePosters EXCEPT ![movie] = "url"]
                                       ELSE mobilePosters
                   /\ descriptions' = [descriptions EXCEPT ![movie] = DescriptionData(movie, out)]
                   /\ mobileRatings' = IF out.rating THEN [mobileRatings EXCEPT ![movie] = "7.0"]
                                       ELSE mobileRatings
              ELSE UNCHANGED <<mobilePosters, descriptions, mobileRatings>>
           /\ lastStep' = OtherStep
    /\ loaders' = IF NextToLoad(ld.list, ld.i, ld.guarded) = 0 THEN loaders \ {ld}
                  ELSE (loaders \ {ld}) \cup {[ld EXCEPT !.phase = "sleep"]}
    /\ UNCHANGED <<movies, recommendations, isLoading, isLoadingMore, error,
                   loadingDescriptions, showingDetails, modalData, loadingModal,
                   previousMovies, inFlight, issued, shown, modalMovie, latest>>
    /\ UNCHANGED <<pvars, svars>>

\* the timer of loadAllMobilePosters fires: loadMobilePoster of the next line
\* up to its await
PosterNext(ld) ==
    /\ ld \in loaders
    /\ ld.phase = "sleep"
    /\ LET next == NextToLoad(ld.list, ld.i, ld.guarded)
       IN  /\ loaders' = (loaders \ {ld}) \cup {[ld EXCEPT !.phase = "fetch", !.i = next]}
           /\ loadingMobilePosters' = [loadingMobilePosters EXCEPT ![ld.list[next]] = TRUE]
           /\ lastStep' = OtherStep
    /\ UNCHANGED <<movies, recommendations, isLoading, isLoadingMore, error, descriptions,
                   loadingDescriptions, showingDetails, modalData, loadingModal,
                   mobilePosters, mobileRatings, previousMovies, inFlight, issued, shown,
                   modalMovie, latest>>
    /\ UNCHANGED <<pvars, svars>>

\* the details button of a displayed line: fetchDescription up to its await,
\* or the toggle of a line that has an entry
FetchDescription(movie) ==
    /\ movie \in Range(recommendationList)
    /\ IF descriptions[movie].present
       THEN /\ showingDetails' = [showingDetails EXCEPT ![movie] = ~@]
            /\ lastStep' = OtherStep
            /\ UNCHANGED <<loadingDescriptions, inFlight, issued>>
       ELSE /\ issued < MaxRequests
            /\ loadingDescriptions' = [loadingDescriptions EXCEPT ![movie] = TRUE]
            /\ inFlight' = inFlight \cup
                  { [NoRequest EXCEPT !.id = NextRequestId, !.kind = "description",
                                      !.movie = movie] }
            /\ issued' = issued + 1
            /\ lastStep' = OtherStep
            /\ UNCHANGED showingDetails
    /\ UNCHANGED <<movies, recommendations, isLoading, isLoadingMore, error, descriptions,
                   modalData, loadingModal, mobilePosters, loadingMobilePosters,
                   mobileRatings, previousMovies, loaders, shown, modalMovie, latest>>
    /\ UNCHANGED <<pvars, svars>>

\* fetchDescription from the response on
DescriptionReturns(req, out) ==
    /\ req \in inFlight
    /\ req.kind = "description"
    /\ inFlight' = inFlight \ {req}
    /\ IF out.ok
       THEN /\ descriptions' = [descriptions EXCEPT ![req.movie] = DescriptionData(req.movie, out)]
            /\ showingDetails' = [showingDetails EXCEPT ![req.movie] = TRUE]
       ELSE /\ descriptions' = [descriptions EXCEPT ![req.movie] = PlaceholderDescription(req.movie)]
            /\ UNCHANGED showingDetails
    /\ loadingDescriptions' = ResetFlag(loadingDescriptions, req.movie)
    /\ lastStep' = IF out.ok THEN OtherStep
                   ELSE [NoStep EXCEPT !.name = "descriptionFailed", !.movie = req.movie]
    /\ UNCHANGED <<movies, recommendations, isLoading, isLoadingMore, error, modalData,
                   loadingModal, mobilePosters, loadingMobilePosters, mobileRatings,
                   previousMovies, loaders, issued, shown, modalMovie, latest>>
    /\ UNCHANGED <<pvars, svars>>

\* a click on one of the first seven cards: fetchModalData up to its await
\* (it returns at once for a line that has an entry or is loading), then
\* setModalMovie
FetchModalData(movie) ==
    /\ movie \in Range(SubSeq(recommendationList, 1, IF Len(recommendationList) < 7
                                                     THEN Len(recommendationList) ELSE 7))
    /\ IF modalData[movie].present \/ loadingModal[movie]
       THEN UNCHANGED <<loadingModal, inFlight, issued>>
       ELSE /\ issued < MaxRequests
            /\ loadingModal' = [loadingModal EXCEPT ![movie] = TRUE]
            /\ inFlight' = inFlight \cup
                  { [NoRequest EXCEPT !.id = NextRequestId, !.kind = "modal", !.movie = movie] }
            /\ issued' = issued + 1
    /\ modalMovie' = Text(movie)
    /\ lastStep' = OtherStep
    /\ UNCHANGED <<movies, recommendations, isLoading, isLoadingMore, error, descriptions,
                   loadingDescriptions, showingDetails, modalData, mobilePosters,
                   loadingMobilePosters, mobileRatings, previousMovies, loaders, shown,
                   latest>>
    /\ UNCHANGED <<pvars, svars>>

\* a click on the modal's backdrop or on its close button
CloseModal ==
    /\ ~modalMovie.isNull
    /\ modalMovie' = NullText
    /\ lastStep' = OtherStep
    /\ UNCHANGED <<movies, recommendations, isLoading, isLoadingMore, error, descriptions,
                   loadingDescriptions, showingDetails, modalData, loadingModal,
                   mobilePosters, loadingMobilePosters, mobileRatings, previousMovies,
                   inFlight, loaders, issued, shown, latest>>
    /\ UNCHANGED <<pvars, svars>>

\* fetchModalData from the response on
ModalReturns(req, ok) ==
    /\ req \in inFlight
    /\ req.kind = "modal"
    /\ inFlight' = inFlight \ {req}
    /\ modalData' = [modalData EXCEPT ![req.movie] =
                        IF ok THEN ModalData(req.movie) ELSE PlaceholderModalData(req.movie)]
    /\ loadingModal' = ResetFlag(loadingModal, req.movie)
    /\ lastStep' = IF ok THEN OtherStep
                   ELSE [NoStep EXCEPT !.name = "modalFailed", !.movie = req.movie]
    /\ UNCHANGED <<movies, recommendations, isLoading, isLoadingMore, error, descriptions,
                   loadingDescriptions, showingDetails, mobilePosters, loadingMobilePosters,
                   mobileRatings, previousMovies, loaders, issued, shown, modalMovie, latest>>
    /\ UNCHANGED <<pvars, svars>>

InitServer ==
    /\ env \in Environments
    /\ route = "none"
    /\ pc = "idle"
    /\ body = NoBody
    /\ title = <<>>
    /\ year = <<>>
    /\ searchLog = <<>>
    /\ searchReplies = <<>>
    /\ results = <<>>
    /\ movieData = NoCandidate
    /\ detailLog = <<>>
    /\ completionLog = <<>>
    /\ completion = NoCompletion
    /\ detail = NoDetail
    /\ trendingLog = <<>>
    /\ trending = NoTrending
    /\ response = NoResponse

InitParse ==
    /\ movieString \in ParserInputs
    /\ ppc = "input"
    /\ info = NoInfo
    /\ cleaned = <<"?">>
    /\ InitServer
    /\ env = [TMDB_API_KEY |-> TRUE, OPENAI_API_KEY |-> TRUE, tz |-> 0]
    /\ InitClient

ExtractCall ==
    /\ ppc = "input"
    /\ info' = extractMovieInfo(movieString)
    /\ ppc' = "extracted"
    /\ UNCHANGED <<movieString, cleaned, svars, cvars>>

CleanCall ==
    /\ ppc = "input"
    /\ cleaned' = cleanMovieTitle(movieString)
    /\ ppc' = "cleaned"
    /\ UNCHANGED <<movieString, info, svars, cvars>>

NextParse == ExtractCall \/ CleanCall

SpecParse == InitParse /\ [][NextParse]_vars

Init ==
    /\ movieString = <<>>
    /\ ppc = "unused"
    /\ info = NoInfo
    /\ cleaned = <<"?">>
    /\ InitServer
    /\ InitClient

Next ==
    \/ \E r \in MovieRoutes, b \in MovieBodies : PostMovie(r, b)
    \/ \E out \in SearchOutcomes : SearchReturns(out)
    \/ \E out \in DetailOutcomes : DetailReturns(out)
    \/ \E b \in RecommendBodies : PostRecommend(b)
    \/ \E out \in CompletionOutcomes : CompletionReturns(out)
    \/ GetTrending
    \/ \E out \in TrendingOutcomes : TrendingReturns(out)

Spec == Init /\ [][Next]_vars

InitPage ==
    /\ movieString = <<>>
    /\ ppc = "unused"
    /\ info = NoInfo
    /\ cleaned = <<"?">>
    /\ InitServer
    /\ env = [TMDB_API_KEY |-> TRUE, OPENAI_API_KEY |-> TRUE, tz |-> 0]
    /\ InitClient

NextPage ==
    \/ \E text \in ClientInputs : SetMovies(text)
    \/ HandleSubmit
    \/ HandleGetMoreMovies
    \/ \E req \in inFlight, out \in RecommendOutcomes : RecommendReturns(req, out)
    \/ \E ld \in loaders, out \in DescriptionReplies : PosterReturns(ld, out)
    \/ \E ld \in loaders : PosterNext(ld)
    \/ \E movie \in ClientLines : FetchDescription(movie)
    \/ \E req \in inFlight, out \in DescriptionReplies : DescriptionReturns(req, out)
    \/ \E movie \in ClientLines : FetchModalData(movie)
    \/ \E req \in inFlight, ok \in BOOLEAN : ModalReturns(req, ok)
    \/ CloseModal

SpecPage == InitPage /\ [][NextPage]_vars

\* the line whose detail request gets no response
SlowLine == <<"(","5","0","0",")"," ","D","a","y","s">>

\* the timer of a running loadAllMobilePosters fires
TimerFires == \E ld \in loaders : PosterNext(ld)

\* the detail request of a line other than the slow one gets its response
PromptReplies ==
    \E ld \in loaders, out \in DescriptionReplies :
        /\ ld.phase = "fetch"
        /\ ld.list[ld.i] # SlowLine
        /\ PosterReturns(ld, out)

\* a search and its poster loads
NextPosters ==
    \/ \E text \in ClientInputs : SetMovies(text)
    \/ HandleSubmit
    \/ \E req \in inFlight, out \in RecommendOutcomes : RecommendReturns(req, out)
    \/ \E ld \in loaders, out \in DescriptionReplies : PosterReturns(ld, out)
    \/ \E ld \in loaders : PosterNext(ld)

\* the same, where timers fire and every request but those for the slow line
\* is answered; the page sets no timeout on a request
SpecPosters ==
    InitPage /\ [][NextPosters]_vars /\ WF_vars(TimerFires) /\ WF_vars(PromptReplies)

(***************************************************************************)
(* Reference notions the statements about the parser and the cleaner are   *)
(* phrased in: written position-wise, independently of the scanning        *)
(* operators above.                                                        *)
(***************************************************************************)
RefWhitespace == {" ", "\t", "\n"}

RefDigits == {"0","1","2","3","4","5","6","7","8","9"}

RefNonBlank(s) == {i \in 1..Len(s) : s[i] \notin RefWhitespace}

\* s without its leading and trailing whitespace
RefTrim(s) ==
    LET nb == RefNonBlank(s)
    IN  IF nb = {} THEN <<>>
        ELSE SubSeq(s, CHOOSE a \in nb : \A b \in nb : a <= b,
                       CHOOSE a \in nb : \A b \in nb : a >= b)

\* s with every maximal run of whitespace replaced by one space
RefCollapse(s) ==
    LET keep == {i \in 1..Len(s) :
                    s[i] \notin RefWhitespace \/ i = 1 \/ s[i - 1] \notin RefWhitespace}
        nth(k) == CHOOSE i \in keep : Cardinality({j \in keep : j <= i}) = k
    IN  [k \in 1..Cardinality(keep) |->
            IF s[nth(k)] \in RefWhitespace THEN " " ELSE s[nth(k)]]

\* the substring of s before the first occurrence of c (s itself if there is none)
RefBefore(s, c) ==
    LET at == {i \in 1..Len(s) : s[i] = c}
    IN  IF at = {} THEN s ELSE SubSeq(s, 1, (CHOOSE a \in at : \A b \in at : a <= b) - 1)

\* a parenthesized 4-digit year starts at index p of s
ParenYearAt(s, p) ==
    /\ p >= 1 /\ p + 5 <= Len(s)
    /\ s[p] = "("
    /\ \A d \in 1..4 : s[p + d] \in RefDigits
    /\ s[p + 5] = ")"

HasParenYear(s) == \E p \in 1..Len(s) : ParenYearAt(s, p)

HasHyphen(s) == \E i \in 1..Len(s) : s[i] = "-"

\* s has no whitespace but single spaces between other characters
IsNormalized(s) ==
    /\ \A i \in 1..Len(s) : s[i] \in RefWhitespace => s[i] = " "
    /\ \A i \in 1..Len(s) - 1 : ~(s[i] = " " /\ s[i + 1] = " ")
    /\ s # <<>> => (s[1] # " " /\ s[Len(s)] # " ")

\* s reads "<title> (<4-digit year>) - <director>" with <title> = s[1..j]
IsFormAt(s, j) ==
    /\ j >= 1 /\ j + 11 <= Len(s)
    /\ RefTrim(SubSeq(s, 1, j)) # <<>>
    /\ s[j + 1] = " "
    /\ ParenYearAt(s, j + 2)
    /\ SubSeq(s, j + 8, j + 10) = <<" ", "-", " ">>

FormSplits(s) == {j \in 1..Len(s) : IsFormAt(s, j)}

(***************************************************************************)
(* C4: for any input "<title> (<4-digit year>) - <director>" the parser    *)
(* returns the trimmed <title> and the 4 digits, also when <title> holds   *)
(* hyphens, digits or parentheses.  Stated for the inputs that read so in  *)
(* exactly one way and whose whitespace is already single spaces, which    *)
(* the claim covers; the parser breaks it when <title> itself holds a      *)
(* parenthesized 4-digit group.                                            *)
(***************************************************************************)
C4_TitleAndYearOfFormatted ==
    (ppc = "extracted" /\ IsNormalized(movieString) /\ Cardinality(FormSplits(movieString)) = 1)
        => \A j \in FormSplits(movieString) :
              /\ info.title = RefTrim(SubSeq(movieString, 1, j))
              /\ info.year = SubSeq(movieString, j + 3, j + 6)

(***************************************************************************)
(* C5 as claimed: for any input without a parenthesized 4-digit year the   *)
(* title is the substring of the input before its first hyphen, trimmed,   *)
(* and the year is empty.                                                  *)
(***************************************************************************)
C5_Original ==
    (ppc = "extracted" /\ ~HasParenYear(movieString))
        => /\ info.title = RefTrim(RefBefore(movieString, "-"))
           /\ info.year = <<>>

(***************************************************************************)
(* C5 as amended: for any input without a parenthesized 4-digit year the   *)
(* title is the substring before the first hyphen of the input with its    *)
(* whitespace runs collapsed to single spaces, trimmed, and the year is    *)
(* empty.                                                                  *)
(***************************************************************************)
C5_TitleBeforeHyphenOfNormalized ==
    (ppc = "extracted" /\ ~HasParenYear(movieString))
        => /\ info.title = RefTrim(RefBefore(RefCollapse(movieString), "-"))
           /\ info.year = <<>>

\* a hyphenated input without a year whose whitespace the parser has rewritten
C5_Witness ==
    /\ ppc = "extracted"
    /\ ~HasParenYear(movieString)
    /\ HasHyphen(movieString)
    /\ info.title # <<>>
    /\ info.title # RefTrim(RefBefore(movieString, "-"))

(***************************************************************************)
(* C6 as claimed: with neither a parenthesized year nor a hyphen in the    *)
(* input, the returned title is the input string unmodified.               *)
(***************************************************************************)
C6_Original ==
    (ppc = "extracted" /\ ~HasParenYear(movieString) /\ ~HasHyphen(movieString))
        => info.title = movieString

(***************************************************************************)
(* C6 as amended: extractMovieInfo returns a title and a year for every    *)
(* string, and with neither a parenthesized year nor a hyphen in the input *)
(* the title is the input with its whitespace runs collapsed to single     *)
(* spaces and trimmed: the input itself exactly when it has no leading or  *)
(* trailing whitespace and no whitespace other than single spaces.         *)
(***************************************************************************)
C6_WorstCaseIsNormalizedInput ==
    /\ ppc = "extracted" =>
          /\ \A i \in 1..Len(info.title) : info.title[i] \in {movieString[k] : k \in 1..Len(movieString)} \cup {" "}
          /\ info.year = <<>> \/ (Len(info.year) = 4 /\ \A i \in 1..4 : info.year[i] \in RefDigits)
    /\ (ppc = "extracted" /\ ~HasParenYear(movieString) /\ ~HasHyphen(movieString))
          => /\ info.title = RefTrim(RefCollapse(movieString))
             /\ info.year = <<>>
             /\ (info.title = movieString) <=> IsNormalized(movieString)

\* a worst-case input the parser returns changed
C6_Witness ==
    /\ ppc = "extracted"
    /\ ~HasParenYear(movieString) /\ ~HasHyphen(movieString)
    /\ info.title # movieString
    /\ info.title # <<>>

(***************************************************************************)
(* C7: cleanMovieTitle removes a leading "the", "a" or "an" (any case,     *)
(* followed by whitespace), replaces every character other than word       *)
(* characters, whitespace, apostrophe and hyphen by a space, collapses     *)
(* whitespace runs to one space and trims; "The Matrix" gives "Matrix".    *)
(***************************************************************************)
RefKept ==
    {UpperLetters[i] : i \in LetterIdx} \cup {LowerLetters[i] : i \in LetterIdx}
        \cup RefDigits \cup {"_"} \cup RefWhitespace \cup {"'", "-"}

RefArticles == { <<"t","h","e">>, <<"a">>, <<"a","n">> }

\* the length of a leading article followed by whitespace (0 if there is none)
RefArticleLen(s) ==
    LET ns == {n \in 1..3 :
                  /\ n < Len(s)
                  /\ [i \in 1..n |-> ToLowerChar(s[i])] \in RefArticles
                  /\ s[n + 1] \in RefWhitespace}
    IN  IF ns = {} THEN 0 ELSE CHOOSE n \in ns : TRUE

RefStripArticle(s) ==
    LET n == RefArticleLen(s)
        rest == {i \in n + 1..Len(s) : s[i] \notin RefWhitespace}
    IN  IF n = 0 THEN s
        ELSE IF rest = {} THEN <<>>
        ELSE SubSeq(s, CHOOSE a \in rest : \A b \in rest : a <= b, Len(s))

RefClean(s) ==
    LET t == RefStripArticle(s)
    IN  RefTrim(RefCollapse([i \in 1..Len(t) |-> IF t[i] \in RefKept THEN t[i] ELSE " "]))

TheMatrix == <<"T","h","e"," ","M","a","t","r","i","x">>

\* C7: cleanMovieTitle returns what the reference cleaning returns, for every input
C7_CleanedTitle ==
    /\ cleanMovieTitle(TheMatrix) = <<"M","a","t","r","i","x">>
    /\ ppc = "cleaned" => cleaned = RefClean(movieString)

\* an article was removed, a special character blanked and whitespace collapsed
C7_Witness ==
    /\ ppc = "cleaned"
    /\ RefArticleLen(movieString) > 0
    /\ \E i \in 1..Len(movieString) : movieString[i] \notin RefKept
    /\ \E i \in 2..Len(cleaned) - 1 : cleaned[i] = " "
    /\ Len(cleaned) + RefArticleLen(movieString) + 1 < Len(movieString)

(***************************************************************************)
(* Statements about the handlers.                                          *)
(***************************************************************************)
RankedRoutes == {"description", "modal"}

\* reply k of the request came back without results
EmptyReply(k) == ~searchReplies[k].failed /\ NoResults(searchReplies[k])

\* reply k of the request came back with at least one result
FoundReply(k) ==
    /\ ~searchReplies[k].failed
    /\ searchReplies[k].hasResults
    /\ Len(searchReplies[k].results) >= 1

(***************************************************************************)
(* C1: in POST /description and POST /modal (with a key and a non-empty    *)
(* movieName) the searches are issued in the order parsed title + year,    *)
(* cleaned title + year, cleaned title alone; a later search is issued     *)
(* only after every earlier one returned no results, none after one        *)
(* returned a result, so at most 3 per request.                            *)
(***************************************************************************)
C1_SearchOrder ==
    route \in RankedRoutes =>
        /\ Len(searchLog) <= 3
        /\ Len(searchReplies) <= Len(searchLog)
        /\ (env.TMDB_API_KEY /\ body.hasMovieName /\ body.movieName # <<>>)
              => Len(searchLog) >= 1
        /\ Len(searchLog) >= 1 => searchLog[1] = [query |-> title, year |-> year]
        /\ Len(searchLog) >= 2 => searchLog[2] = [query |-> RefClean(title), year |-> year]
        /\ Len(searchLog) >= 3 => searchLog[3] = [query |-> RefClean(title), year |-> <<>>]
        /\ \A i \in 2..Len(searchLog) : \A k \in 1..i - 1 : EmptyReply(k)
        /\ \A k \in 1..Len(searchReplies) : ~EmptyReply(k) => Len(searchLog) = k

\* the third search found the movie, after the first two found nothing
C1_Witness ==
    /\ route \in RankedRoutes
    /\ Len(searchLog) = 3 /\ Len(searchReplies) = 3
    /\ FoundReply(3)
    /\ year # <<>>
    /\ searchLog[1].query # searchLog[2].query

(***************************************************************************)
(* C2: the candidate selected for the detail lookup is rank 0 by           *)
(* score = 2*[title equals the parsed title, case-insensitively]           *)
(* + [release year equals the parsed year], ties broken by                 *)
(* vote_count*vote_average: no other candidate of the result set has a     *)
(* strictly higher score, nor an equal score and a strictly higher         *)
(* popularity.                                                             *)
(***************************************************************************)
\* the year a release date names
RefReleaseYear(c) ==
    IF Len(c.release_date) >= 4 THEN SubSeq(c.release_date, 1, 4) ELSE <<>>

RefScore(c) ==
    2 * (IF [i \in 1..Len(c.title) |-> ToLowerChar(c.title[i])]
             = [i \in 1..Len(title) |-> ToLowerChar(title[i])] THEN 1 ELSE 0)
    + (IF year # <<>> /\ RefReleaseYear(c) = year THEN 1 ELSE 0)

RefPopularity(c) == c.vote_count * c.vote_average

RefRanksAbove(c, d) ==
    \/ RefScore(c) > RefScore(d)
    \/ RefScore(c) = RefScore(d) /\ RefPopularity(c) > RefPopularity(d)

\* C2: no candidate of the result set ranks above the selected one
C2_RankZeroIsBest ==
    (route \in RankedRoutes /\ movieData # NoCandidate)
        => /\ \E i \in 1..Len(results) : results[i] = movieData
           /\ \A i \in 1..Len(results) : ~RefRanksAbove(results[i], movieData)

\* the ranking statement restricted to a server whose local time is UTC
C2_RankZeroIsBestInUTC == env.tz = 0 => C2_RankZeroIsBest

(***************************************************************************)
(* C3: in POST /recommend with a non-empty excludeMovies, every line of    *)
(* the completion whose pre-parenthesis title equals, case-insensitively   *)
(* and trimmed, that of an excluded entry is removed, and the remaining    *)
(* non-blank lines are returned in their order.                            *)
(***************************************************************************)
\* the lines of a text
RefLines(s) ==
    LET breaks == {i \in 1..Len(s) : s[i] = "\n"}
        starts == {1} \cup {i + 1 : i \in breaks}
        nth(k) == CHOOSE i \in starts : Cardinality({j \in starts : j <= i}) = k
        endOf(i) == LET later == {b \in breaks : b >= i}
                    IN  IF later = {} THEN Len(s)
                        ELSE (CHOOSE a \in later : \A b \in later : a <= b) - 1
    IN  [k \in 1..Cardinality(starts) |-> SubSeq(s, nth(k), endOf(nth(k)))]

\* the title before the first parenthesis, trimmed and in lower case
RefPreParenTitle(s) ==
    LET t == RefTrim(RefBefore(s, "("))
    IN  [i \in 1..Len(t) |-> ToLowerChar(t[i])]

RefExcluded(line) ==
    \E k \in 1..Len(body.excludeMovies) :
        RefPreParenTitle(line) = RefPreParenTitle(body.excludeMovies[k])

RefWanted(line) == RefTrim(line) # <<>> /\ ~RefExcluded(line)

\* C3: the returned lines are the non-blank lines whose title is not excluded, in order
C3_ExcludedTitlesRemoved ==
    (route = "recommend" /\ response.success /\ Len(body.excludeMovies) > 0)
        => (IF response.recommendations = <<>> THEN <<>>
            ELSE RefLines(response.recommendations))
              = SelectSeq(RefLines(completion.content), RefWanted)

(***************************************************************************)
(* C8: the cleaned title is only a fallback query: in every handler that   *)
(* resolves a movie the first search uses the exact parsed title, and a    *)
(* search with the cleaned title is issued only after a search with the    *)
(* exact parsed title returned no results.                                 *)
(***************************************************************************)
C8_CleanedOnlyAsFallback ==
    route \in MovieRoutes =>
        /\ Len(searchLog) >= 1 => searchLog[1].query = title
        /\ \A i \in 1..Len(searchLog) :
              searchLog[i].query # title
                  => \E k \in 1..i - 1 : searchLog[k].query = title /\ EmptyReply(k)

(***************************************************************************)
(* C9 as claimed: if all three searches return no results the request      *)
(* fails without a detail call, and its JSON error body carries the        *)
(* generic failure message.                                                *)
(***************************************************************************)
AllThreeEmpty ==
    /\ pc = "done"
    /\ Len(searchReplies) = 3
    /\ \A k \in 1..3 : EmptyReply(k)

\* C9 as claimed: all three searches empty => generic failure message, no detail call
C9_Original ==
    AllThreeEmpty
        => /\ response.sent /\ ~response.success
           /\ detailLog = <<>>
           /\ response.error = "Failed to get movie details"

(***************************************************************************)
(* C9 as amended: if all three searches return no results the request      *)
(* fails with "Movie not found": no detail call is issued and the response *)
(* is a JSON error body with status 500 whose error field is               *)
(* "Error: Movie not found" (the thrown message, not the generic           *)
(* "Failed to get movie details"), never a success body.                   *)
(***************************************************************************)
C9_NotFoundResponse ==
    AllThreeEmpty
        => /\ response.sent /\ ~response.success
           /\ detailLog = <<>>
           /\ response.status = 500
           /\ response.error = "Error: Movie not found"

C9_Witness == AllThreeEmpty /\ response.sent /\ route = "description"

(***************************************************************************)
(* C10 as claimed: when the search phase yields a candidate, exactly one   *)
(* detail call is issued, after the searches, for the id of the rank-0     *)
(* candidate, with credits, videos and watch providers appended; no detail *)
(* call on a path that ends before a candidate is selected.                *)
(***************************************************************************)
\* the search phase has ended with a candidate
SearchFound ==
    /\ searchReplies # <<>>
    /\ FoundReply(Len(searchReplies))

\* no candidate of the result set precedes c in the handler's own ordering
RankedFirst(c) ==
    \A i \in 1..Len(results) :
        \/ CombinedScore(results[i], title, year, env.tz) < CombinedScore(c, title, year, env.tz)
        \/ /\ CombinedScore(results[i], title, year, env.tz) = CombinedScore(c, title, year, env.tz)
           /\ Popularity(results[i]) <= Popularity(c)

OneDetailCallFor(appended) ==
    route \in RankedRoutes =>
        /\ Len(detailLog) <= 1
        /\ ~SearchFound => detailLog = <<>>
        /\ SearchFound =>
              /\ Len(detailLog) = 1
              /\ Len(searchLog) = Len(searchReplies)
              /\ results = searchReplies[Len(searchReplies)].results
              /\ \E i \in 1..Len(results) : results[i].id = detailLog[1].id
              /\ movieData.id = detailLog[1].id
              /\ RankedFirst(movieData)
              /\ detailLog[1].append = appended

\* C10 as claimed: one detail call for the first-ranked candidate, videos always appended
C10_Original == OneDetailCallFor({"credits", "videos", "watch/providers"})

(***************************************************************************)
(* C10 as amended: the same, except that the detail call of POST /modal    *)
(* appends credits, videos and watch providers, and the detail call of     *)
(* POST /description appends credits and watch providers only.             *)
(***************************************************************************)
C10_OneDetailCall ==
    OneDetailCallFor(IF route = "description" THEN {"credits", "watch/providers"}
                     ELSE {"credits", "videos", "watch/providers"})

\* the detail call went to a candidate the service had not listed first
C10_Witness ==
    /\ route = "description"
    /\ Len(detailLog) = 1
    /\ Len(results) >= 2
    /\ results[1].id # detailLog[1].id

(***************************************************************************)
(* Notions the statements about the handlers' responses are phrased in.    *)
(***************************************************************************)
\* the upstream calls a request has issued, over all services
UpstreamCalls == Len(searchLog) + Len(detailLog) + Len(completionLog) + Len(trendingLog)

\* the environment has the API key the handler needs
KeyPresent == IF route = "recommend" THEN env.OPENAI_API_KEY ELSE env.TMDB_API_KEY

\* the request's body is JSON but lacks the handler's required input, or holds
\* the empty string for it
InputMissing ==
    /\ ~body.malformed
    /\ \/ route = "recommend" /\ (~body.hasMovies \/ Len(body.movies) = 0)
       \/ route \in MovieRoutes /\ (~body.hasMovieName \/ Len(body.movieName) = 0)

\* the response is a JSON error body
IsErrorBody == response.sent /\ ~response.success /\ response.error # ""

\* the response is a success body
IsSuccessBody == response.sent /\ response.success /\ response.error = "" /\ response.status = 200

(***************************************************************************)
(* C11: when the detail response lacks an optional field, POST /modal and  *)
(* POST /description still answer with a success body, in which the field  *)
(* is an empty array, an empty string or null.  The handlers break it: a   *)
(* detail response without genres, cast or crew (and, for /description,    *)
(* without a rating) is answered with a 500 error body.                    *)
(***************************************************************************)
C11_MissingFieldsDegrade ==
    (pc = "done" /\ route \in MovieRoutes /\ Len(detailLog) = 1 /\ ~detail.failed)
        => /\ IsSuccessBody
           /\ \A f \in detail.missing : response.fields[f] \in {"[]", "''", "null", "none"}

(***************************************************************************)
(* C12: POST /recommend issues exactly one chat-completion call per valid  *)
(* request and none otherwise; a text that comes back is returned with a   *)
(* success body however many lines it has and however they are formed,     *)
(* and with an empty exclusion list it is returned unchanged.              *)
(***************************************************************************)
C12_OneCompletionCallTextUnchanged ==
    route = "recommend"
        => /\ Len(completionLog) =
                  IF env.OPENAI_API_KEY /\ ~body.malformed /\ body.hasMovies /\ Len(body.movies) > 0
                  THEN 1 ELSE 0
           /\ (pc = "done" /\ Len(completionLog) = 1 /\ ~completion.failed /\ completion.hasChoice)
                 => /\ IsSuccessBody
                    /\ Len(body.excludeMovies) = 0
                          => response.recommendations =
                                (IF completion.hasContent THEN completion.content ELSE <<>>)

\* a text with a blank line, not of the expected form, returned as it came
C12_Witness ==
    /\ route = "recommend" /\ pc = "done"
    /\ Len(completionLog) = 1
    /\ Len(body.excludeMovies) = 0
    /\ completion.hasContent
    /\ \E i \in 1..Len(completion.content) : completion.content[i] = "\n"
    /\ \E i \in 1..Len(RefLines(completion.content)) :
          RefTrim(RefLines(completion.content)[i]) = <<>>
    /\ response.recommendations = completion.content

(***************************************************************************)
(* C13 as claimed: whenever the API key the endpoint needs is absent, the  *)
(* response has status 500 and a non-empty error, and no upstream call is  *)
(* made.                                                                   *)
(***************************************************************************)
C13_Original ==
    (pc = "done" /\ ~KeyPresent)
        => IsErrorBody /\ response.status = 500 /\ UpstreamCalls = 0

(***************************************************************************)
(* C13 as amended: whenever the API key the endpoint needs is absent, the  *)
(* request ends at once in a JSON error body with a non-empty error and no *)
(* upstream call is made; the status is 500, except that /description and  *)
(* /modal, which look at the input before the key, answer 400 to a body    *)
(* whose movieName is missing or empty.                                    *)
(***************************************************************************)
C13_MissingKeyResponse ==
    (route # "none" /\ ~KeyPresent)
        => /\ pc = "done"
           /\ IsErrorBody
           /\ UpstreamCalls = 0
           /\ response.status = IF route \in MovieRoutes /\ InputMissing THEN 400 ELSE 500

\* a well-formed request to /modal answered 500 for the missing key
C13_Witness ==
    /\ route = "modal" /\ pc = "done"
    /\ ~env.TMDB_API_KEY
    /\ body.hasMovieName /\ Len(body.movieName) > 0
    /\ response.status = 500
    /\ response.error = "TMDB API key not configured"

(***************************************************************************)
(* C14: when the body lacks the required input (movies for /recommend,     *)
(* movieName for /description and /modal) or holds the empty string for    *)
(* it, and the API key is configured, the response has status 400 with an  *)
(* error field and no upstream call is made.                               *)
(***************************************************************************)
C14_MissingInputIs400 ==
    (route # "none" /\ KeyPresent /\ InputMissing)
        => /\ pc = "done"
           /\ IsErrorBody
           /\ response.status = 400
           /\ UpstreamCalls = 0

\* an empty movieName, with the key configured, answered 400
C14_Witness ==
    /\ route = "description" /\ pc = "done"
    /\ env.TMDB_API_KEY
    /\ body.hasMovieName /\ Len(body.movieName) = 0
    /\ response.status = 400
    /\ response.error = "Please provide a movie title"

\* the failure of the upstream call that failed, if one did
UpstreamFailed ==
    \/ route \in MovieRoutes /\ Len(searchReplies) > 0 /\ searchReplies[Len(searchReplies)].failed
    \/ route \in MovieRoutes /\ detail.failed
    \/ route = "recommend" /\ completion.failed
    \/ route = "trending" /\ trending.kind \in {"http", "network"}

\* the HTTP status that failure carries, 0 if it carries none
UpstreamStatus ==
    IF route = "trending" THEN trending.status
    ELSE IF route = "recommend" THEN completion.error.status
    ELSE IF detail.failed THEN detail.error.status
    ELSE searchReplies[Len(searchReplies)].error.status

(***************************************************************************)
(* C15: for every endpoint, when an upstream call fails with an HTTP error *)
(* status s the response carries status s, and when the failure carries no *)
(* status the response status is 500.  GET /trending breaks it: it throws  *)
(* a plain Error for a non-2xx response, so its catch block finds no       *)
(* status and always answers 500.                                          *)
(***************************************************************************)
C15_StatusForwarded ==
    (pc = "done" /\ UpstreamFailed)
        => response.status = IF UpstreamStatus # 0 THEN UpstreamStatus ELSE 500

\* the same statement for the three POST handlers, whose upstream errors
\* carry the status
C15_StatusForwardedByPostHandlers ==
    (pc = "done" /\ UpstreamFailed /\ route # "trending")
        => response.status = IF UpstreamStatus # 0 THEN UpstreamStatus ELSE 500

(***************************************************************************)
(* C16: every request to any of the four handlers ends in exactly one JSON *)
(* response, a success body or a body with an error field and a status of  *)
(* 400 or above, whichever step fails: a handler that has returned has     *)
(* sent one such body, and a handler that has not is awaiting an upstream  *)
(* call and has sent none.                                                 *)
(***************************************************************************)
C16_OneJsonResponse ==
    /\ pc \in {"idle", "search1", "search2", "search3", "detail", "completion", "trending", "done"}
    /\ pc = "done" <=> response.sent
    /\ pc = "done" => \/ IsSuccessBody
                      \/ IsErrorBody /\ response.status >= 400
    /\ pc \notin {"idle", "done"} => UpstreamCalls > 0 /\ response = NoResponse

\* failures of every kind ended in an error body: here the processing of a
\* detail response without genres
C16_Witness ==
    /\ pc = "done" /\ route \in MovieRoutes
    /\ Len(detailLog) = 1 /\ ~detail.failed
    /\ "genres" \in detail.missing
    /\ IsErrorBody
    /\ response.status = 500

(***************************************************************************)
(* Notions the statements about the page are phrased in.                   *)
(***************************************************************************)
\* the part of a line before its first " (", lower-cased and trimmed
RefTitlePart(line) ==
    LET at == {i \in 1..Len(line) - 1 : line[i] = " " /\ line[i + 1] = "("}
    IN  RefTrim(toLowerCase(IF at = {} THEN line
                            ELSE SubSeq(line, 1, (CHOOSE a \in at : \A b \in at : a <= b) - 1)))

\* the lines without those whose title part an earlier line has
RefDisplayed(lines) ==
    LET keep == {i \in 1..Len(lines) :
                    \A j \in 1..(i - 1) : RefTitlePart(lines[j]) # RefTitlePart(lines[i])}
        nth(k) == CHOOSE i \in keep : Cardinality({j \in keep : j <= i}) = k
    IN  [k \in 1..Cardinality(keep) |-> lines[nth(k)]]

\* the comma-separated entries of the input box, trimmed, without the empty ones
RefInputMovies ==
    LET commas == {i \in 1..Len(movies) : movies[i] = ","}
        starts == {1} \cup {i + 1 : i \in commas}
        endOf(i) == LET later == {c \in commas : c >= i}
                    IN  IF later = {} THEN Len(movies)
                        ELSE (CHOOSE a \in later : \A b \in later : a <= b) - 1
    IN  {RefTrim(SubSeq(movies, i, endOf(i))) : i \in starts} \ {<<>>}

(***************************************************************************)
(* C17: after a successful Get More, previousMovies is its value at the    *)
(* call followed by the returned non-blank lines; and the exclusion list   *)
(* sent with a Get More request contains every input movie and every line  *)
(* returned by a successful request since the last submit.  The page       *)
(* breaks it when requests overlap: Enter pressed twice starts two         *)
(* submits, the later response overwrites previousMovies, and the lines of *)
(* the earlier one, which were displayed, are not excluded.                *)
(***************************************************************************)
C17_ExclusionListComplete ==
    /\ lastStep.name = "moreOk"
          => previousMovies = lastStep.closurePrevious \o lastStep.returned
    /\ lastStep.name = "more"
          => \A l \in RefInputMovies \cup shown : \E k \in 1..Len(lastStep.sent) : lastStep.sent[k] = l

(***************************************************************************)
(* C18 as claimed: the lines displayed before Get More is clicked are      *)
(* still displayed while the request is in flight and after it completes,  *)
(* successfully or not.                                                    *)
(***************************************************************************)
C18_Original ==
    lastStep.name \in {"more", "moreOk", "moreFailed"}
        => \A i \in 1..Len(lastStep.before) :
              \E k \in 1..Len(recommendationList) : recommendationList[k] = lastStep.before[i]

(***************************************************************************)
(* C18 as amended: Get More does not clear the displayed list when it      *)
(* starts, nor when its request fails: either step leaves the displayed    *)
(* lines as they were.  When its request succeeds the displayed list       *)
(* becomes the returned batch (one line per title), and the returned lines *)
(* are the end of previousMovies.                                          *)
(***************************************************************************)
C18_ListKeptUntilReplaced ==
    /\ lastStep.name \in {"more", "moreFailed"} => recommendationList = lastStep.before
    /\ lastStep.name = "moreOk"
          => /\ recommendationList = RefDisplayed(lastStep.returned)
             /\ Len(previousMovies) >= Len(lastStep.returned)
             /\ SubSeq(previousMovies, Len(previousMovies) - Len(lastStep.returned) + 1,
                       Len(previousMovies)) = lastStep.returned

\* a successful Get More after which a line displayed before is displayed no more
C18_Witness ==
    /\ lastStep.name = "moreOk"
    /\ lastStep.returned # <<>>
    /\ \E i \in 1..Len(lastStep.before) :
          \A k \in 1..Len(recommendationList) : recommendationList[k] # lastStep.before[i]

(***************************************************************************)
(* C19: after a detail fetch for a line fails (fetchDescription or         *)
(* fetchModalData) the line's loading flag is false and its cache entry    *)
(* holds a placeholder description; and no line is stuck in loading: a     *)
(* loading flag is set only while a request for the line is in flight.     *)
(***************************************************************************)
C19_FailedFetchLeavesPlaceholder ==
    /\ lastStep.name = "descriptionFailed"
          => /\ ~loadingDescriptions[lastStep.movie]
             /\ descriptions[lastStep.movie].present
             /\ descriptions[lastStep.movie].description = "Failed to load description."
    /\ lastStep.name = "modalFailed"
          => /\ ~loadingModal[lastStep.movie]
             /\ modalData[lastStep.movie].present
             /\ modalData[lastStep.movie].description = "Failed to load movie details."
    /\ \A l \in ClientLines :
          /\ loadingDescriptions[l] => \E r \in inFlight : r.kind = "description" /\ r.movie = l
          /\ loadingModal[l] => \E r \in inFlight : r.kind = "modal" /\ r.movie = l
          /\ loadingMobilePosters[l] => \E ld \in loaders : ld.phase = "fetch" /\ ld.list[ld.i] = l

\* a fetchDescription has failed while another request was in flight
C19_Witness ==
    /\ lastStep.name = "descriptionFailed"
    /\ descriptions[lastStep.movie].description = "Failed to load description."
    /\ inFlight # {}

(***************************************************************************)
(* C20: once handleSubmit has started, no entry fetched for the previous   *)
(* search remains in any client cache of movie detail (descriptions,       *)
(* modalData, mobilePosters, mobileRatings).  The page breaks it:          *)
(* handleSubmit resets descriptions only.                                  *)
(***************************************************************************)
C20_CachesDiscardedOnSubmit ==
    lastStep.name = "submit"
        => \A l \in ClientLines :
              /\ ~descriptions[l].present
              /\ ~modalData[l].present
              /\ mobilePosters[l] = ""
              /\ mobileRatings[l] = ""

\* the part of it that holds: handleSubmit empties descriptions
C20_DescriptionsDiscardedOnSubmit ==
    lastStep.name = "submit" => \A l \in ClientLines : ~descriptions[l].present

(***************************************************************************)
(* Notions the statements about the per-line state are phrased in.         *)
(***************************************************************************)
\* the state of the detail panel of a line
Panel(m) ==
    IF descriptions[m].present
    THEN IF showingDetails[m] THEN "shown" ELSE "hidden"
    ELSE IF loadingDescriptions[m] THEN "loading" ELSE "unfetched"

\* the moves of the panel the statement lists
ClaimedMoves ==
    { <<"unfetched", "loading">>, <<"loading", "shown">>,
      <<"shown", "hidden">>, <<"hidden", "shown">> }

\* this step starts a request of the kind for the line
Starts(kind, m) ==
    \E r \in inFlight' \ inFlight : r.kind = kind /\ r.movie = m

\* this step is the completion of a request of the kind for the line
Completes(kind, m) ==
    \E r \in inFlight \ inFlight' : r.kind = kind /\ r.movie = m

\* this step is the completion of a poster request for the line
PosterCompletes(m) ==
    \E ld \in loaders \ loaders' : ld.phase = "fetch" /\ ld.list[ld.i] = m

\* this step is the start of handleSubmit or of handleGetMoreMovies
StartsRecommend ==
    \E r \in inFlight' \ inFlight : r.kind \in {"submit", "more"}

(***************************************************************************)
(* C21 as claimed: the detail panel of a line moves only unfetched ->      *)
(* loading, loading -> shown, and shown <-> hidden.                        *)
(***************************************************************************)
C21_Original ==
    [][\A m \in ClientLines :
          Panel(m)' # Panel(m) => <<Panel(m), Panel(m)'>> \in ClaimedMoves]_vars

(***************************************************************************)
(* C21 as amended: a click on the details button moves the panel           *)
(* unfetched -> loading (a request starts) or shown <-> hidden; a          *)
(* successful fetchDescription opens it (-> shown); a failed one, and a    *)
(* completed poster load, store the line's entry without opening the panel *)
(* (unfetched or loading -> hidden); handleSubmit and handleGetMoreMovies  *)
(* clear every panel (-> unfetched, or -> loading for a line whose fetch   *)
(* is still in flight).  No other move occurs: a panel never leaves        *)
(* loading for unfetched when its fetch completes, and a click never       *)
(* starts a request for a line that has an entry.                          *)
(***************************************************************************)
C21_PanelMoves ==
    [][\A m \in ClientLines :
          Panel(m)' # Panel(m) =>
             \/ /\ Panel(m) = "unfetched" /\ Panel(m)' = "loading"
                /\ Starts("description", m)
             \/ /\ Panel(m)' = "shown"
                /\ Completes("description", m)
             \/ /\ <<Panel(m), Panel(m)'>> \in {<<"shown", "hidden">>, <<"hidden", "shown">>}
                /\ inFlight' = inFlight
                /\ loaders' = loaders
                /\ descriptions' = descriptions
             \/ /\ Panel(m)' = "hidden"
                /\ Panel(m) \in {"unfetched", "loading"}
                /\ Completes("description", m) \/ PosterCompletes(m)
             \/ /\ Panel(m)' \in {"unfetched", "loading"}
                /\ StartsRecommend]_vars

\* a fetchDescription has failed and the panel of its line went from loading
\* to hidden
C21_Witness ==
    /\ lastStep.name = "descriptionFailed"
    /\ Panel(lastStep.movie) = "hidden"
    /\ descriptions[lastStep.movie].description = "Failed to load description."
    /\ ~loadingDescriptions[lastStep.movie]

\* the entries of a line in the per-line maps
PerLine(l) ==
    <<descriptions[l], loadingDescriptions[l], showingDetails[l], modalData[l],
      loadingModal[l], mobilePosters[l], loadingMobilePosters[l], mobileRatings[l]>>

\* this step is the start of a poster request for the line
PosterStarts(m) ==
    \E ld \in loaders' \ loaders : ld.phase = "fetch" /\ ld.list[ld.i] = m

(***************************************************************************)
(* C22: the per-line state is keyed by the line's text and each line is    *)
(* tracked on its own: a step of fetchDescription, fetchModalData or       *)
(* loadMobilePoster for a line m, and a click on the details toggle of m,  *)
(* change no entry of a line other than m in any per-line map.  Lines that *)
(* name the same movie in different words are different keys.  (Only       *)
(* handleSubmit and handleGetMoreMovies, which replace descriptions and    *)
(* showingDetails by empty maps, touch several lines at once.)             *)
(***************************************************************************)
C22_OnlyOwnEntriesChange ==
    [][~StartsRecommend =>
          /\ Cardinality({l \in ClientLines : PerLine(l)' # PerLine(l)}) <= 1
          /\ \A m \in ClientLines :
                (\/ Starts("description", m) \/ Completes("description", m)
                 \/ Starts("modal", m) \/ Completes("modal", m)
                 \/ PosterStarts(m) \/ PosterCompletes(m))
                   => \A l \in ClientLines \ {m} : PerLine(l)' = PerLine(l)]_vars

\* two lines that name the same movie, one with entries and loading, the
\* other without any
C22_Witness ==
    \E a, b \in ClientLines :
        /\ a # b
        /\ RefTitlePart(a) = RefTitlePart(b)
        /\ modalData[a].present
        /\ ~modalData[b].present
        /\ loadingMobilePosters[b]
        /\ ~loadingMobilePosters[a]

\* the poster requests in flight
PosterRequests == {ld \in loaders : ld.phase = "fetch"}

(***************************************************************************)
(* C23: poster requests go to the detail endpoint one at a time: at no     *)
(* time are two of them in flight, for any sequence of submits and Get     *)
(* More clicks.  The page breaks it: every completed handleSubmit and      *)
(* handleGetMoreMovies starts a loadAllMobilePosters of its own, and a     *)
(* loop that is still running is neither awaited nor stopped, so the       *)
(* requests of two batches overlap.                                        *)
(***************************************************************************)
C23_OnePosterRequestAtATime == Cardinality(PosterRequests) <= 1

\* a poster load of the line is yet to come in a running batch
Waiting(l) ==
    \E ld \in loaders : \E j \in (ld.i + 1)..Len(ld.list) :
        ld.list[j] = l /\ l \notin ld.guarded

(***************************************************************************)
(* C24: a detail request that never completes delays its own line only:    *)
(* every other line of the batch whose poster load is yet to come has its  *)
(* request issued eventually (and completed, as its own request gets a     *)
(* response).  The page breaks it: loadAllMobilePosters awaits each        *)
(* loadMobilePoster before it goes on, and no request has a timeout, so    *)
(* the lines after the slow one are never requested.                       *)
(***************************************************************************)
C24_OtherLinesStillLoaded ==
    \A l \in ClientLines \ {SlowLine} : Waiting(l) ~> ~Waiting(l)

\* the /recommend requests in flight
RecommendRequests == {r \in inFlight : r.kind \in {"submit", "more"}}

(***************************************************************************)
(* C25: once no /recommend request is in flight, what the page displays    *)
(* and the exclusion list it keeps are those the response to the request   *)
(* issued last produced.  The page breaks it: responses are applied in the *)
(* order they arrive, and the response to an earlier submit that arrives   *)
(* after the response to a later one overwrites recommendations and        *)
(* previousMovies.                                                         *)
(***************************************************************************)
C25_LastIssuedWins ==
    (RecommendRequests = {} /\ latest.answered /\ latest.ok)
        => /\ recommendations = Text(latest.text)
           /\ previousMovies = latest.previous

(***************************************************************************)
(* C26: while a /recommend request started by handleSubmit is in flight    *)
(* isLoading is true, while one started by handleGetMoreMovies is in       *)
(* flight isLoadingMore is true, and at most one request of each kind is   *)
(* in flight.  The page breaks it for handleSubmit: the Enter key calls it *)
(* whatever isLoading is, and the first response resets the flag while the *)
(* second request is in flight.                                            *)
(***************************************************************************)
C26_FlagsGuardRequests ==
    /\ \A r \in RecommendRequests :
          /\ r.kind = "submit" => isLoading
          /\ r.kind = "more" => isLoadingMore
    /\ Cardinality({r \in RecommendRequests : r.kind = "submit"}) <= 1
    /\ Cardinality({r \in RecommendRequests : r.kind = "more"}) <= 1

\* the part of it that holds: the Get More button guards its handler
C26_GetMoreGuarded ==
    /\ \A r \in RecommendRequests : r.kind = "more" => isLoadingMore
    /\ Cardinality({r \in RecommendRequests : r.kind = "more"}) <= 1

(***************************************************************************)
(* C27: whenever no request of the page is in flight (no /recommend, no    *)
(* detail, no modal and no poster request), every loading flag is false:   *)
(* isLoading, isLoadingMore, and loadingDescriptions, loadingModal and     *)
(* loadingMobilePosters of every line.                                     *)
(***************************************************************************)
C27_NoFlagLeftSet ==
    (inFlight = {} /\ PosterRequests = {})
        => /\ ~isLoading
           /\ ~isLoadingMore
           /\ \A l \in ClientLines :
                 ~loadingDescriptions[l] /\ ~loadingModal[l] /\ ~loadingMobilePosters[l]

\* handlers have run, with a failed detail fetch and a successful poster load
\* among them, and nothing is in flight
C27_Witness ==
    /\ inFlight = {}
    /\ PosterRequests = {}
    /\ issued >= 2
    /\ \E l \in ClientLines : descriptions[l].description = "Failed to load description."
    /\ \E l \in ClientLines : mobilePosters[l] # ""

(***************************************************************************)
(* C28: whenever the modal is open for a line, the line is loading or has  *)
(* a modalData entry, so NetflixModal renders the loading overlay or the   *)
(* detail view.                                                            *)
(***************************************************************************)
C28_OpenModalRenders ==
    ~modalMovie.isNull
        => loadingModal[modalMovie.text] \/ modalData[modalMovie.text].present

\* the modal is open for a line whose fetch has failed: it shows the
\* placeholder
C28_Witness ==
    /\ ~modalMovie.isNull
    /\ ~loadingModal[modalMovie.text]
    /\ modalData[modalMovie.text].description = "Failed to load movie details."

(***************************************************************************)
(* C29: no detail request is issued for a line that has a cache entry or   *)
(* whose request is still loading: a modal request starts only for a line  *)
(* without modalData entry and not loading, and a description request only *)
(* for a line without descriptions entry and not loading.  The page breaks *)
(* the last part: fetchDescription does not test loadingDescriptions, so a *)
(* second click on the details button of a line that is loading sends a    *)
(* second request.                                                         *)
(***************************************************************************)
C29_NoRequestWhenCachedOrLoading ==
    [][\A m \in ClientLines :
          /\ Starts("modal", m) => ~modalData[m].present /\ ~loadingModal[m]
          /\ Starts("description", m) => ~descriptions[m].present /\ ~loadingDescriptions[m]]_vars

\* the part of it that holds: a line with an entry, placeholder or not, is
\* not fetched again, and a line whose modal request is loading neither
C29_CachedNotRefetched ==
    [][\A m \in ClientLines :
          /\ Starts("modal", m) => ~modalData[m].present /\ ~loadingModal[m]
          /\ Starts("description", m) => ~descriptions[m].present]_vars

(***************************************************************************)
(* C30: after a successful Get More no displayed line has the title (the   *)
(* text before its parenthesis, compared without case) of an input movie   *)
(* or of a line the exclusion list held when Get More was clicked, that    *)
(* is, of a line returned earlier since the submit.  The route breaks it:  *)
(* for an excluded line that begins with a parenthesis it compares the     *)
(* empty string with the title of the recommendation, so the line is       *)
(* returned and displayed again.                                           *)
(***************************************************************************)
C30_GetMoreNeverRepeats ==
    lastStep.name = "moreOk"
        => \A k \in 1..Len(recommendationList) :
              \A e \in RefInputMovies \cup Range(lastStep.closurePrevious) :
                 RefTitlePart(recommendationList[k]) # RefTitlePart(e)

====
